---- MODULE Spec2Model ----
(***************************************************************************)
(* A model of the core of ethpandaops/beacon (package beacon): the Health  *)
(* tracker, the cache fetchers, the event ingress and broker fan-out, the  *)
(* subscription ensurer, the wall-clock reactions and the Start/Stop       *)
(* lifecycle of the node.                                                  *)
(*                                                                         *)
(* The module holds several specifications over one set of variables.     *)
(* Each specification drives one subsystem and leaves the variables of    *)
(* the others at their constructed values.                                 *)
(***************************************************************************)
EXTENDS Integers, Sequences, FiniteSets, TLC

VARIABLES
    \* ---- Health (pkg/beacon/health.go)
    healthy, failures, successes, failThreshold, successThreshold,
    failTotal, successTotal,
    healthMu,       \* Health.mu: the threads holding it (one writer, or readers)
    hist,           \* history of recorded outcomes, oldest first ("S" / "F")
    \* ---- node: clients and cache slots (type node, NewNode)
    client,         \* n.client
    api,            \* n.api is set
    spec, genesis, nodeVersion, peers, finality,
    syncstate,      \* n.stat.syncstate
    networkID,      \* n.stat.networkID
    statMu,         \* Status.mu: the threads holding it (one writer, or readers)
    syncWrites,     \* history: the values passed to UpdateSyncState so far
    \* ---- node: lifecycle
    lifecycleMu,    \* holder of n.lifecycleMu, or Free
    nctx, ncancel,  \* n.ctx, n.cancel: 0 is nil, k > 0 the k-th context created
    nextCtx,        \* number of contexts created by context.WithCancel
    cancelled,      \* contexts whose cancel function has been invoked
    opts,           \* n.options
    \* ---- node: bootstrap
    wallclock,      \* n.wallclock: NoWallclock, or the clock built from genesis and spec
    hooks,          \* contexts whose subscribeDownstream reactions are registered
    ensurers,       \* contexts whose ensureBeaconSubscription goroutine was spawned
    ready,          \* n.Ready
    readyPending,   \* `go n.publishReady(ctx)` goroutines not yet run
    \* ---- node: periodic scheduler
    crons,          \* n.crons: 0 is nil
    sched,          \* contexts whose gocron scheduler is running
    jobRuns,        \* runs of periodic jobs started so far
    \* ---- node: first-time-healthy latch
    hasEmittedFirstTimeHealthy,
    pendingFTH,     \* `go n.publishFirstTimeHealthy(ctx)` goroutines not yet run
    \* ---- the upstream beacon node
    upReachable,    \* the upstream accepts connections
    upFinality,     \* head finality served
    upChanges,      \* number of changes of the upstream state so far
    beforeGenesis,  \* the clock: time.Now() is before the genesis time
    \* ---- broker (n.broker)
    emitted,        \* events emitted so far, per topic
    handlers,       \* the handlers registered through On<Topic>, in order
    invoked,        \* how often each registered handler has been invoked
    errlog,         \* the error lines logged, oldest first
    ran,            \* the latest Emit: its topic and its listeners as they ran
    \* ---- event ingress (pkg/beacon/subscriptions.go)
    ensurerRet,     \* the ensureBeaconSubscription goroutines that have returned
    ticks,          \* ticks of the 2-second timer of the ensurers so far
    subscribes,     \* calls of subscribeToBeaconEvents so far
    eventsCalls,    \* calls of provider.Events so far
    streams,        \* the upstream SSE streams opened, oldest first
    nextEvent,      \* upstream events received so far
    lastEventTime,  \* n.lastEventTime: the arrival of the event it was written at
    inflight,       \* events whose handleEvent has published raw_event only
    trace,          \* the raw_event and typed emissions of the ingress, in order
    \* ---- wall-clock slot reaction (subscribeDownstream)
    slotChanges,    \* slot changes delivered by the wall clock so far
    probes,         \* the block probes sent upstream, oldest first
    emptySlots,     \* the slot_empty events emitted, oldest first
    \* ---- threads: the goroutines that run node methods
    th,
    calls,          \* fetcher calls started by direct callers
    \* ---- package state: fork epochs and blob schedule of a Spec
    forkEpochs,     \* a ForkEpochs list: records of name and epoch
    blobSchedule,   \* a BlobSchedule: records of epoch and max blobs per block
    stateRes,       \* the latest call of a function of package state, its result
    overlap         \* history: two FetchFinality("head") calls have run concurrently

healthVars == <<healthy, failures, successes, failThreshold, successThreshold,
                failTotal, successTotal, healthMu, hist>>
statusVars == <<networkID, statMu, syncWrites>>
cacheVars == <<spec, genesis, nodeVersion, peers, finality, syncstate, statusVars>>
clientVars == <<client, api>>
lifeVars == <<lifecycleMu, nctx, ncancel, nextCtx, cancelled>>
upVars == <<upReachable, upFinality, upChanges, beforeGenesis>>
brokerVars == <<emitted, handlers, invoked, errlog, ran>>
ingressVars == <<ensurerRet, ticks, subscribes, eventsCalls, streams, nextEvent,
                 lastEventTime,
                 inflight, trace>>
slotVars == <<slotChanges, probes, emptySlots>>
\* The upstream, the event ingress and the slot reaction.
outerVars == <<upVars, ingressVars, slotVars>>

bootVars == <<wallclock, hooks, ensurers, ready, readyPending>>
schedVars == <<crons, sched, jobRuns>>
latchVars == <<hasEmittedFirstTimeHealthy, pendingFTH>>
stateVars == <<forkEpochs, blobSchedule, stateRes>>
\* What no method of the node writes: the options and the inputs of package
\* state.
staticVars == <<opts, stateVars>>

vars == <<healthVars, cacheVars, clientVars, lifeVars, staticVars, bootVars, schedVars,
          latchVars, outerVars, brokerVars, th, calls, overlap>>

\* What the steps of a fetcher leave alone, besides the cache slots, the broker
\* and the threads.
fetchFrame == <<healthVars, clientVars, lifeVars, staticVars, bootVars, schedVars,
                latchVars, outerVars, calls, overlap>>
\* Everything but the Health tracker.
nodeVars == <<cacheVars, clientVars, lifeVars, staticVars, bootVars, schedVars,
              latchVars, outerVars, brokerVars, th, calls, overlap>>

----------------------------------------------------------------------------
(* Bounds of the model *)

\* Largest threshold NewHealth is called with.
MaxThreshold == 3
\* Number of RecordSuccess/RecordFail calls explored.
MaxOps == 8
\* Number of fetcher calls made by direct callers.
MaxCalls == 2
\* Number of times the upstream state changes.
MaxChanges == 1

----------------------------------------------------------------------------
(* Health: pkg/beacon/health.go *)

\* NewHealth(successThreshold, failThreshold): healthy is the zero value false.
NewHealth(succ, fail) ==
    /\ healthy = FALSE
    /\ failures = 0
    /\ successes = 0
    /\ failThreshold = fail
    /\ successThreshold = succ
    /\ failTotal = 0
    /\ successTotal = 0
    /\ healthMu = {}

\* A RecordFail that forgets to reset the success streak.
RecordFailNoReset ==
    /\ failTotal' = failTotal + 1
    /\ failures' = failures + 1
    /\ successes' = successes
    /\ healthy' = IF failures' >= failThreshold THEN FALSE ELSE healthy
    /\ UNCHANGED <<successTotal, failThreshold, successThreshold, healthMu>>

\* Health.RecordFail, the whole critical section under n.mu.
RecordFail ==
    /\ failTotal' = failTotal + 1
    /\ failures' = failures + 1
    /\ successes' = 0
    /\ healthy' = IF failures' >= failThreshold THEN FALSE ELSE healthy
    /\ UNCHANGED <<successTotal, failThreshold, successThreshold, healthMu>>

\* A RecordSuccess that forgets to reset the failure streak.
RecordSuccessNoReset ==
    /\ successTotal' = successTotal + 1
    /\ successes' = successes + 1
    /\ failures' = failures
    /\ healthy' = IF successes' >= successThreshold THEN TRUE ELSE healthy
    /\ UNCHANGED <<failTotal, failThreshold, successThreshold, healthMu>>

\* Health.RecordSuccess, the whole critical section under n.mu.
RecordSuccess ==
    /\ successTotal' = successTotal + 1
    /\ successes' = successes + 1
    /\ failures' = 0
    /\ healthy' = IF successes' >= successThreshold THEN TRUE ELSE healthy
    /\ UNCHANGED <<failTotal, failThreshold, successThreshold, healthMu>>

\* Health.Healthy()
Healthy == healthy

\* Health.FailedTotal() and Health.SuccessTotal()
FailedTotal == failTotal
SuccessTotal == successTotal

\* A caller records a failed check.
DoRecordFail ==
    /\ Len(hist) < MaxOps
    /\ RecordFail
    /\ hist' = Append(hist, "F")
    /\ UNCHANGED nodeVars

\* A caller records a successful check.
DoRecordSuccess ==
    /\ Len(hist) < MaxOps
    /\ RecordSuccess
    /\ hist' = Append(hist, "S")
    /\ UNCHANGED nodeVars

----------------------------------------------------------------------------
(* The node: clients, cache slots, fetchers (pkg/beacon/fetch.go) *)

\* n.client: a nil interface, or a client with the providers it implements.
NoClient == [isNil |-> TRUE, provides |-> {}]
ClientOf(provs) == [isNil |-> FALSE, provides |-> provs]
Free == "free"

\* The capability interfaces of go-eth2-client the fetchers assert.
AllProviders ==
    {"NodeSyncingProvider", "NodeVersionProvider", "SpecProvider",
     "GenesisProvider", "FinalityProvider", "SignedBeaconBlockProvider",
     "EventsProvider"}

\* Clients ensureClients accepts: all implement NodeSyncingProvider.
ClientKinds ==
    {ClientOf(AllProviders), ClientOf(AllProviders \ {"FinalityProvider"})}

\* n.client.(eth2client.X): false on a nil client.
Implements(prov) == ~client.isNil /\ prov \in client.provides

Fetchers == {"spec", "genesis", "sync", "version", "peers", "finality"}
PlainSlots == Fetchers \ {"finality"}
\* The values the upstream serves for a plain slot; 0 is the empty slot (a nil
\* pointer, the empty version string, a nil peer list).
Values == {1, 2}
StateIDs == {"head", "finalized"}

ProviderOf(f) ==
    CASE f = "spec" -> "SpecProvider"
      [] f = "genesis" -> "GenesisProvider"
      [] f = "sync" -> "NodeSyncingProvider"
      [] f = "version" -> "NodeVersionProvider"
      [] f = "finality" -> "FinalityProvider"

\* The derived event a fetcher publishes (pkg/beacon/publisher.go).
TopicOf(f) ==
    CASE f = "spec" -> "spec_updated"
      [] f = "sync" -> "sync_status"
      [] f = "version" -> "node_version_updated"
      [] f = "peers" -> "peers_updated"
      [] f = "finality" -> "finality_checkpoint_updated"
      [] OTHER -> "none"

DerivedTopics ==
    {"spec_updated", "sync_status", "node_version_updated", "peers_updated",
     "finality_checkpoint_updated", "ready", "slot_empty",
     "health_check_suceeded", "health_check_failed", "first_time_healthy"}

\* The upstream topics handleEvent has a case for (pkg/beacon/event.go).
ProxiedTopics ==
    {"single_attestation", "attestation", "block", "chain_reorg",
     "finalized_checkpoint", "head", "voluntary_exit",
     "contribution_and_proof", "blob_sidecar", "data_column_sidecar"}

\* topicEvent
RawEvent == "raw_event"

\* topicBlockGossip: publishBlockGossip and OnBlockGossip exist for it, and
\* handleEvent has no case for it.
BlockGossip == "block_gossip"

\* Every topic the broker has a publisher for.
Topics == DerivedTopics \cup ProxiedTopics \cup {RawEvent, BlockGossip}

\* v1.Finality: three checkpoints of (epoch, root).
CP(e, r) == [epoch |-> e, root |-> r]
Checkpoints == {CP(e, r) : e \in {100, 101}, r \in {"0xAA", "0xBB"}}
NilFinality == [nil |-> TRUE]
NoWallclock == [nil |-> TRUE]
\* BeaconSubscriptionOptions
BeaconSubscriptionOptions(enabled, topics) == [Enabled |-> enabled, Topics |-> topics]
DefaultDisabledBeaconSubscriptionOptions == BeaconSubscriptionOptions(FALSE, <<>>)
\* Options with the given switches and subscription options.
OptionsOf(metrics, detect, sub) ==
    [PrometheusMetrics |-> metrics, DetectEmptySlots |-> detect,
     BeaconSubscription |-> sub]
BaseFinality ==
    [previousJustified |-> CP(100, "0xAA"), justified |-> CP(100, "0xAA"),
     finalized |-> CP(100, "0xAA")]
\* The finalities the upstream serves: the base, and the base with one of
\* its checkpoints replaced.
FinalityValues ==
    {[BaseFinality EXCEPT ![k] = c] :
        k \in {"previousJustified", "justified", "finalized"}, c \in Checkpoints}

\* A FetchFinality change test that compares the epochs only.
FinalityChangedEpochOnly(cached, fetched) ==
    \/ cached = NilFinality
    \/ fetched.finalized.epoch # cached.finalized.epoch
    \/ fetched.justified.epoch # cached.justified.epoch
    \/ fetched.previousJustified.epoch # cached.previousJustified.epoch

\* FetchFinality: the `changed` expression.
FinalityChanged(cached, fetched) ==
    \/ cached = NilFinality
    \/ fetched.finalized.root # cached.finalized.root
    \/ fetched.finalized.epoch # cached.finalized.epoch
    \/ fetched.justified.root # cached.justified.root
    \/ fetched.justified.epoch # cached.justified.epoch
    \/ fetched.previousJustified.epoch # cached.previousJustified.epoch
    \/ fetched.previousJustified.root # cached.previousJustified.root

\* A thread: its position, the fetcher call it is in, and what that call has
\* read so far.
\*   pc   position; op/sid the fetcher and its stateID; ctx the context passed;
\*   ret  the position to continue at when the fetcher returns; res its result;
\*   rsp/fin the upstream response; chg the `changed` local of FetchFinality;
\*   seen the finality cache as the change test read it; wrote/pub whether
\*   this call has written its cache slot / published its event;
\*   loc  the `spec` local of initializeState; fails the `failures` local of
\*   ensureClients; saw the n.cancel that Stop read (0 is nil); after is 1 when
\*   a Start had returned nil before this Stop was called; nth the ordinal of
\*   the getter call whose result the thread holds.
IdleThread ==
    [pc |-> "idle", op |-> "none", sid |-> "none", ctx |-> 0, ret |-> "idle",
     res |-> "none", rsp |-> 0, fin |-> NilFinality, chg |-> FALSE,
     seen |-> NilFinality, wrote |-> FALSE, pub |-> FALSE,
     loc |-> 0, fails |-> 0, saw |-> 0, after |-> 0, nth |-> 0, slept |-> 0]

\* The goroutines: users calling the fetchers, callers of Start, callers of
\* Stop, and the goroutines the gocron scheduler runs its jobs on (every run of
\* a job is a goroutine of its own, so two runs can overlap).
Callers == {"caller1", "caller2"}
Starters == {"starter1", "starter2"}
Stoppers == {"stopper1", "stopper2"}
CronThreads == {"cron1", "cron2"}
Threads == Callers \cup Starters \cup Stoppers \cup CronThreads

\* Thread q is inside FetchFinality("head").
InHeadFinality(q) ==
    /\ th[q].op = "finality" /\ th[q].sid = "head"
    /\ th[q].pc \in {"call", "got", "cmp", "pub"}

\* Thread p enters fetcher f with stateID s and context c, to continue at r.
Enter(p, f, s, c, r) ==
    /\ th' = [th EXCEPT ![p] = [IdleThread EXCEPT !.pc = "call", !.op = f,
                                                !.sid = s, !.ctx = c, !.ret = r,
                                                !.loc = th[p].loc]]
    /\ overlap' = (overlap \/ (f = "finality" /\ s = "head" /\
                                \E q \in Threads \ {p} : InHeadFinality(q)))

\* The fetcher returns result r to thread p.
Return(p, r) == th' = [th EXCEPT ![p].pc = th[p].ret, ![p].res = r]

\* An error path that clears the cache slot before returning.
ReturnErrorClearsCache(p) ==
    /\ Return(p, "err")
    /\ spec' = IF th[p].op = "spec" THEN 0 ELSE spec
    /\ genesis' = IF th[p].op = "genesis" THEN 0 ELSE genesis
    /\ syncstate' = IF th[p].op = "sync" THEN 0 ELSE syncstate
    /\ nodeVersion' = IF th[p].op = "version" THEN 0 ELSE nodeVersion
    /\ peers' = IF th[p].op = "peers" THEN 0 ELSE peers
    /\ finality' = IF th[p].op = "finality" /\ th[p].sid = "head"
                   THEN NilFinality ELSE finality
    /\ UNCHANGED <<statusVars, brokerVars>>

\* `if !isProvider { return nil, errors.New(...) }` and
\* `if err != nil { return nil, err }`: nothing but the return.
ReturnError(p) ==
    /\ Return(p, "err")
    /\ UNCHANGED <<cacheVars, brokerVars>>

\* The head of every fetcher: the capability assertion and the upstream call.
\* The call fails with the context's error once its context is cancelled, and
\* may fail with a transport error at any time; a plain slot's call answers
\* with any value, a head finality call with the upstream's head finality.
FetchCall(p) ==
    /\ th[p].pc = "call"
    /\ LET f == th[p].op IN
       IF f = "peers" /\ ~api
       THEN \* n.api is a nil interface: the method call panics
            /\ th' = [th EXCEPT ![p].pc = "panic"]
            /\ UNCHANGED <<cacheVars, brokerVars>>
       ELSE IF f # "peers" /\ ~Implements(ProviderOf(f))
       THEN ReturnError(p)
       ELSE \/ ReturnError(p)
            \/ /\ th[p].ctx \notin cancelled
               /\ upReachable
               /\ \E v \in (IF f = "finality" THEN {0} ELSE Values) :
                    th' = [th EXCEPT ![p].pc = "got",
                            ![p].rsp = v,
                            ![p].fin = IF f # "finality" THEN NilFinality
                                       ELSE IF th[p].sid = "head" THEN upFinality
                                       ELSE BaseFinality]
               /\ UNCHANGED <<cacheVars, brokerVars>>
    /\ UNCHANGED fetchFrame

\* FetchFinality after the call: for "head" the change test against the cached
\* value; any other stateID returns the value at once.
FetchCompare(p) ==
    /\ th[p].pc = "got"
    /\ th[p].op = "finality"
    /\ IF th[p].sid = "head"
       THEN th' = [th EXCEPT ![p].pc = "cmp",
                             ![p].chg = FinalityChanged(finality, th[p].fin),
                             ![p].seen = finality]
       ELSE Return(p, "ok")
    /\ UNCHANGED <<fetchFrame, cacheVars, brokerVars>>

\* The cache write of each fetcher.
StoreSpec(v) == spec' = v /\ UNCHANGED <<genesis, nodeVersion, peers, finality, syncstate, statusVars>>
StoreGenesis(v) == genesis' = v /\ UNCHANGED <<spec, nodeVersion, peers, finality, syncstate, statusVars>>
\* Status.UpdateSyncState, the whole critical section under s.mu.
UpdateSyncState(v) ==
    /\ syncstate' = v
    /\ syncWrites' = syncWrites \cup {v}
    /\ UNCHANGED <<spec, genesis, nodeVersion, peers, finality, networkID, statMu>>
StoreNodeVersion(v) == nodeVersion' = v /\ UNCHANGED <<spec, genesis, peers, finality, syncstate, statusVars>>
StorePeers(v) == peers' = v /\ UNCHANGED <<spec, genesis, nodeVersion, finality, syncstate, statusVars>>
StoreFinality(v) == finality' = v /\ UNCHANGED <<spec, genesis, nodeVersion, peers, syncstate, statusVars>>

\* A fetcher that publishes only a value that differs from the cached one.
FetchStoreIfChanged(p) ==
    /\ \/ th[p].pc = "got" /\ th[p].op # "finality"
       \/ th[p].pc = "cmp"
    /\ LET f == th[p].op
           same == CASE f = "spec" -> spec = th[p].rsp
                     [] f = "genesis" -> TRUE
                     [] f = "sync" -> syncstate = th[p].rsp
                     [] f = "version" -> nodeVersion = th[p].rsp
                     [] f = "peers" -> peers = th[p].rsp
                     [] f = "finality" -> ~th[p].chg
       IN
       /\ CASE f = "spec" -> StoreSpec(th[p].rsp)
            [] f = "genesis" -> StoreGenesis(th[p].rsp)
            [] f = "sync" -> UpdateSyncState(th[p].rsp)
            [] f = "version" -> StoreNodeVersion(th[p].rsp)
            [] f = "peers" -> StorePeers(th[p].rsp)
            [] f = "finality" -> StoreFinality(th[p].fin)
       /\ IF same
          THEN th' = [th EXCEPT ![p].pc = th[p].ret, ![p].res = "ok",
                                ![p].wrote = TRUE]
          ELSE th' = [th EXCEPT ![p].pc = "pub", ![p].wrote = TRUE]
    /\ UNCHANGED <<fetchFrame, brokerVars>>

\* The fetcher writes the response into its cache slot.
FetchStore(p) ==
    /\ \/ th[p].pc = "got" /\ th[p].op # "finality"
       \/ th[p].pc = "cmp"
    /\ LET f == th[p].op IN
       /\ CASE f = "spec" -> StoreSpec(th[p].rsp)
            [] f = "genesis" -> StoreGenesis(th[p].rsp)
            [] f = "sync" -> UpdateSyncState(th[p].rsp)
            [] f = "version" -> StoreNodeVersion(th[p].rsp)
            [] f = "peers" -> StorePeers(th[p].rsp)
            [] f = "finality" -> StoreFinality(th[p].fin)
       /\ IF f = "genesis" \/ (f = "finality" /\ ~th[p].chg)
          THEN th' = [th EXCEPT ![p].pc = th[p].ret, ![p].res = "ok",
                                ![p].wrote = TRUE]
          ELSE th' = [th EXCEPT ![p].pc = "pub", ![p].wrote = TRUE]
    /\ UNCHANGED <<fetchFrame, brokerVars>>

\* n.handleSubscriberError(err, topic): a non-nil error (0 is nil) is logged
\* with the topic field; nothing is returned.
handleSubscriberError(err, topic) ==
    IF err # 0 THEN <<[src |-> "subscriber", topic |-> topic, err |-> err,
                       cause |-> "handler"]>>
    ELSE <<>>

\* What the i-th registered handler returns: nil, or an error of its own.
HandlerResult(i) == IF handlers[i].fails THEN i ELSE 0

\* A fan-out that stops at the first listener whose handler fails.
FanoutUntilError(topic) ==
    LET on == {i \in DOMAIN handlers : handlers[i].topic = topic}
        bad == {i \in on : handlers[i].fails}
    IN  IF bad = {} THEN on
        ELSE {i \in on : \A b \in bad : i <= b}

\* The listeners Emit runs for a topic: every listener registered on it, each
\* on a goroutine of its own, and Emit waits for all of them.
Fanout(topic) == {i \in DOMAIN handlers : handlers[i].topic = topic}

\* The orders in which the goroutines of the listeners in set S can run.
Orders(S) ==
    {o \in [1..Cardinality(S) -> S] :
        \A i, j \in 1..Cardinality(S) : i # j => o[i] # o[j]}

\* The lines logged by the listeners that ran in order o.
RECURSIVE ListenerLogs(_, _)
ListenerLogs(o, topic) ==
    IF Len(o) = 0 THEN <<>>
    ELSE handleSubscriberError(HandlerResult(Head(o)), topic)
             \o ListenerLogs(Tail(o), topic)

\* n.broker.Emit(topic, ...): one more event on the topic; each listener of
\* the topic (the wrapper On<Topic> registered) calls its handler once and
\* hands the result to handleSubscriberError. The listeners' goroutines run
\* in an order the scheduler picks; Emit returns when all have returned.
Emit(topic) ==
    /\ emitted' = [emitted EXCEPT ![topic] = @ + 1]
    /\ invoked' = [i \in DOMAIN invoked |->
                      IF i \in Fanout(topic) THEN invoked[i] + 1 ELSE invoked[i]]
    /\ \E o \in Orders(Fanout(topic)) :
         /\ ran' = [topic |-> topic, order |-> o]
         /\ errlog' = errlog \o ListenerLogs(o, topic)
    /\ UNCHANGED handlers

\* The fetcher publishes its derived event and returns the value.
FetchPublish(p) ==
    /\ th[p].pc = "pub"
    /\ Emit(TopicOf(th[p].op))
    /\ th' = [th EXCEPT ![p].pc = th[p].ret, ![p].res = "ok", ![p].pub = TRUE]
    /\ UNCHANGED <<fetchFrame, cacheVars>>

\* A user of the node calls one of the caching fetchers with its own context.
CallerInvoke(p) ==
    /\ th[p].pc \in {"idle", "done"}
    /\ calls < MaxCalls
    /\ \E f \in Fetchers :
         \E s \in (IF f = "finality" THEN StateIDs ELSE {"none"}) :
            Enter(p, f, s, 0, "done")
    /\ calls' = calls + 1
    /\ UNCHANGED <<healthVars, cacheVars, clientVars, lifeVars, staticVars, bootVars,
                   schedVars, latchVars, outerVars, brokerVars>>

\* The upstream's chain moves on: it serves another head finality.
UpstreamChange ==
    /\ upChanges < MaxChanges
    /\ upChanges' = upChanges + 1
    /\ \E v \in FinalityValues :
            /\ v # upFinality
            /\ upFinality' = v
    /\ UNCHANGED <<healthVars, cacheVars, clientVars, lifeVars, staticVars, bootVars,
                   schedVars, latchVars, upReachable, beforeGenesis, ingressVars,
                   slotVars,
                   brokerVars, th, calls, overlap>>

----------------------------------------------------------------------------
(* Health under concurrent callers: the calls step by step, with n.mu *)

\* Number of RecordSuccess / RecordFail calls explored.
MaxRecords == 4

HealthWriters == {"RecordSuccess", "RecordFail"}
HealthReaders == {"SuccessTotal", "FailedTotal", "Healthy"}

\* What a Health call leaves alone, besides the Health and the threads.
healthFrame == <<cacheVars, clientVars, lifeVars, staticVars, bootVars, schedVars,
                 latchVars, outerVars, brokerVars, calls, overlap>>

\* The writers that have been called and have not yet returned.
HealthWriting == {q \in Threads : th[q].op \in HealthWriters /\
                                   th[q].pc \in {"m_lock", "m_in", "m_store", "m_unlock"}}

\* A goroutine calls a method of the Health.
HealthCall(p) ==
    /\ th[p].pc \in {"idle", "done"}
    /\ \E m \in HealthWriters \cup HealthReaders :
         /\ m \in HealthWriters => Len(hist) + Cardinality(HealthWriting) < MaxRecords
         /\ th' = [th EXCEPT ![p] = [IdleThread EXCEPT !.pc = "m_lock", !.op = m]]
    /\ UNCHANGED <<healthVars, healthFrame>>

\* A Lock that never waits.
HealthLockNoWait(p) ==
    /\ th[p].pc = "m_lock"
    /\ healthMu' = healthMu \cup {p}
    /\ th' = [th EXCEPT ![p].pc = "m_in"]
    /\ UNCHANGED <<healthy, failures, successes, failThreshold, successThreshold,
                   failTotal, successTotal, hist, healthFrame>>

\* n.mu.Lock() waits until nobody holds the mutex; n.mu.RLock() until no
\* writer holds it.
HealthLock(p) ==
    /\ th[p].pc = "m_lock"
    /\ IF th[p].op \in HealthWriters
       THEN healthMu = {}
       ELSE \A q \in healthMu : th[q].op \in HealthReaders
    /\ healthMu' = healthMu \cup {p}
    /\ th' = [th EXCEPT ![p].pc = "m_in"]
    /\ UNCHANGED <<healthy, failures, successes, failThreshold, successThreshold,
                   failTotal, successTotal, hist, healthFrame>>

\* n.failTotal++ / n.successTotal++, the load.
HealthLoad(p) ==
    /\ th[p].pc = "m_in" /\ th[p].op \in HealthWriters
    /\ th' = [th EXCEPT ![p].pc = "m_store",
                        ![p].rsp = IF th[p].op = "RecordFail" THEN failTotal
                                   ELSE successTotal]
    /\ UNCHANGED <<healthVars, healthFrame>>

\* The store of the incremented total and the rest of the critical section.
HealthStore(p) ==
    /\ th[p].pc = "m_store"
    /\ IF th[p].op = "RecordFail"
       THEN /\ failTotal' = th[p].rsp + 1
            /\ failures' = failures + 1
            /\ successes' = 0
            /\ healthy' = IF failures' >= failThreshold THEN FALSE ELSE healthy
            /\ UNCHANGED successTotal
       ELSE /\ successTotal' = th[p].rsp + 1
            /\ successes' = successes + 1
            /\ failures' = 0
            /\ healthy' = IF successes' >= successThreshold THEN TRUE ELSE healthy
            /\ UNCHANGED failTotal
    /\ th' = [th EXCEPT ![p].pc = "m_unlock"]
    /\ UNCHANGED <<failThreshold, successThreshold, healthMu, hist, healthFrame>>

\* The readers, under RLock: the value they return (the flag as 0 / 1).
HealthRead(p) ==
    /\ th[p].pc = "m_in" /\ th[p].op \in HealthReaders
    /\ th' = [th EXCEPT ![p].pc = "m_unlock",
                        ![p].rsp = CASE th[p].op = "FailedTotal" -> FailedTotal
                                     [] th[p].op = "SuccessTotal" -> SuccessTotal
                                     [] th[p].op = "Healthy" ->
                                          IF Healthy THEN 1 ELSE 0]
    /\ UNCHANGED <<healthVars, healthFrame>>

\* The deferred Unlock / RUnlock; the call returns.
HealthUnlock(p) ==
    /\ th[p].pc = "m_unlock"
    /\ healthMu' = healthMu \ {p}
    /\ hist' = CASE th[p].op = "RecordFail" -> Append(hist, "F")
                 [] th[p].op = "RecordSuccess" -> Append(hist, "S")
                 [] OTHER -> hist
    /\ th' = [th EXCEPT ![p].pc = "done", ![p].res = "ok"]
    /\ UNCHANGED <<healthy, failures, successes, failThreshold, successThreshold,
                   failTotal, successTotal, healthFrame>>

----------------------------------------------------------------------------
(* Status under concurrent callers: the calls step by step, with s.mu
   (pkg/beacon/status.go) *)

\* v1.SyncState.IsSyncing of the sync states the upstream serves.
IsSyncing(v) == v = 2

\* Status.Syncing(): false without a sync state.
\* A Syncing that answers whether a sync state has been written.
SyncingWhenSet == syncstate # 0

Syncing == IF syncstate = 0 THEN FALSE ELSE IsSyncing(syncstate)

StatusWriters == {"UpdateSyncState", "UpdateNetworkID"}
StatusReaders == {"SyncState", "Syncing", "NetworkID"}

\* What a Status call leaves alone, besides the Status and the threads.
statusFrame == <<healthVars, spec, genesis, nodeVersion, peers, finality,
                 clientVars, lifeVars, staticVars, bootVars, schedVars, latchVars,
                 outerVars, brokerVars, calls, overlap>>

\* A goroutine calls a method of the Status; a writer passes a value.
StatusCall(p) ==
    /\ th[p].pc \in {"idle", "done"}
    /\ \E m \in StatusWriters \cup StatusReaders :
       \E v \in (IF m \in StatusWriters THEN Values ELSE {0}) :
         th' = [th EXCEPT ![p] = [IdleThread EXCEPT !.pc = "u_lock", !.op = m,
                                                   !.loc = v]]
    /\ UNCHANGED <<syncstate, statusVars, statusFrame>>

\* A Lock that never waits.
StatusLockNoWait(p) ==
    /\ th[p].pc = "u_lock"
    /\ statMu' = statMu \cup {p}
    /\ th' = [th EXCEPT ![p].pc = "u_in"]
    /\ UNCHANGED <<syncstate, networkID, syncWrites, statusFrame>>

\* s.mu.Lock() waits until nobody holds the mutex; s.mu.RLock() until no
\* writer holds it.
StatusLock(p) ==
    /\ th[p].pc = "u_lock"
    /\ IF th[p].op \in StatusWriters
       THEN statMu = {}
       ELSE \A q \in statMu : th[q].op \in StatusReaders
    /\ statMu' = statMu \cup {p}
    /\ th' = [th EXCEPT ![p].pc = "u_in"]
    /\ UNCHANGED <<syncstate, networkID, syncWrites, statusFrame>>

\* s.syncstate = state / s.networkID = networkID
StatusWrite(p) ==
    /\ th[p].pc = "u_in" /\ th[p].op \in StatusWriters
    /\ IF th[p].op = "UpdateSyncState"
       THEN /\ syncstate' = th[p].loc
            /\ syncWrites' = syncWrites \cup {th[p].loc}
            /\ UNCHANGED networkID
       ELSE /\ networkID' = th[p].loc
            /\ UNCHANGED <<syncstate, syncWrites>>
    /\ th' = [th EXCEPT ![p].pc = "u_unlock"]
    /\ UNCHANGED <<statMu, statusFrame>>

\* The readers: the value they return (a flag as 0 / 1). Syncing answers
\* false for a nil sync state.
StatusRead(p) ==
    /\ th[p].pc = "u_in" /\ th[p].op \in StatusReaders
    /\ th' = [th EXCEPT ![p].pc = "u_unlock",
                        ![p].rsp = CASE th[p].op = "SyncState" -> syncstate
                                     [] th[p].op = "NetworkID" -> networkID
                                     [] th[p].op = "Syncing" ->
                                          IF Syncing THEN 1 ELSE 0]
    /\ UNCHANGED <<syncstate, statusVars, statusFrame>>

\* The deferred Unlock / RUnlock; the call returns.
StatusUnlock(p) ==
    /\ th[p].pc = "u_unlock"
    /\ statMu' = statMu \ {p}
    /\ th' = [th EXCEPT ![p].pc = "done", ![p].res = "ok"]
    /\ UNCHANGED <<syncstate, networkID, syncWrites, statusFrame>>

----------------------------------------------------------------------------
(* The node: the cached getters (unnamed/part_021) *)

\* What a getter returns: the value (val for the plain slots, fin for the
\* finality) and the error, "nil" for a nil error.
Got(v, f, err) == [val |-> v, fin |-> f, err |-> err]

Spec ==
    IF spec = 0 THEN Got(0, NilFinality, "spec is not available")
    ELSE Got(spec, NilFinality, "nil")

\* node.SyncState reads through Status.SyncState.
SyncState ==
    IF syncstate = 0 THEN Got(0, NilFinality, "sync state not available")
    ELSE Got(syncstate, NilFinality, "nil")

Genesis == Got(genesis, NilFinality, "nil")

\* The empty string (0) before the first FetchNodeVersion.
NodeVersion == Got(nodeVersion, NilFinality, "nil")

Finality ==
    IF finality = NilFinality THEN Got(0, NilFinality, "finality not available")
    ELSE Got(0, finality, "nil")

Getters == {"Spec", "SyncState", "Genesis", "NodeVersion", "Finality"}

Get(g) ==
    CASE g = "Spec" -> Spec
      [] g = "SyncState" -> SyncState
      [] g = "Genesis" -> Genesis
      [] g = "NodeVersion" -> NodeVersion
      [] g = "Finality" -> Finality

\* A user of the node calls one of the getters.
CallerGet(p) ==
    /\ th[p].pc \in {"idle", "done"}
    /\ calls < MaxCalls
    /\ calls' = calls + 1
    /\ \E g \in Getters :
         th' = [th EXCEPT ![p] = [IdleThread EXCEPT
                    !.pc = "done", !.op = "get", !.sid = g,
                    !.res = IF Get(g).err = "nil" THEN "ok" ELSE "err",
                    !.rsp = Get(g).val, !.fin = Get(g).fin,
                    !.nth = calls + 1]]
    /\ UNCHANGED <<healthVars, cacheVars, clientVars, lifeVars, staticVars, bootVars,
                   schedVars, latchVars, outerVars, brokerVars, overlap>>

----------------------------------------------------------------------------
(* The node: Start (unnamed/part_021, unnamed/part_012) *)

\* Largest value of the `failures` local of ensureClients explored.
MaxFailures == 1

\* What the steps of Start that touch only the lifecycle fields leave alone.
lifeFrame == <<healthVars, cacheVars, clientVars, staticVars, bootVars, schedVars,
               latchVars, outerVars, brokerVars, calls, overlap>>

\* Start returns result r to its caller.
StartReturn(p, r) == th' = [th EXCEPT ![p].pc = "s_done", ![p].res = r]

\* Start: ctx, cancel := context.WithCancel(ctx).
StartBegin(p) ==
    /\ th[p].pc = "idle"
    /\ nextCtx' = nextCtx + 1
    /\ th' = [th EXCEPT ![p].pc = "s_lock", ![p].ctx = nextCtx + 1]
    /\ UNCHANGED <<lifecycleMu, nctx, ncancel, cancelled, lifeFrame>>

\* A Lock that does not wait for the mutex to be free.
StartLockNoWait(p) ==
    /\ th[p].pc = "s_lock"
    /\ lifecycleMu' = p
    /\ th' = [th EXCEPT ![p].pc = "s_ctx"]
    /\ UNCHANGED <<nctx, ncancel, nextCtx, cancelled, lifeFrame>>

\* Start: n.lifecycleMu.Lock().
StartLock(p) ==
    /\ th[p].pc = "s_lock"
    /\ lifecycleMu = Free
    /\ lifecycleMu' = p
    /\ th' = [th EXCEPT ![p].pc = "s_ctx"]
    /\ UNCHANGED <<nctx, ncancel, nextCtx, cancelled, lifeFrame>>

\* Start: n.ctx = ctx.
StartStoreCtx(p) ==
    /\ th[p].pc = "s_ctx"
    /\ nctx' = th[p].ctx
    /\ th' = [th EXCEPT ![p].pc = "s_cancel"]
    /\ UNCHANGED <<lifecycleMu, ncancel, nextCtx, cancelled, lifeFrame>>

\* Start: n.cancel = cancel.
StartStoreCancel(p) ==
    /\ th[p].pc = "s_cancel"
    /\ ncancel' = th[p].ctx
    /\ th' = [th EXCEPT ![p].pc = "s_unlock"]
    /\ UNCHANGED <<lifecycleMu, nctx, nextCtx, cancelled, lifeFrame>>

\* Start: n.lifecycleMu.Unlock().
StartUnlock(p) ==
    /\ th[p].pc = "s_unlock"
    /\ lifecycleMu' = Free
    /\ th' = [th EXCEPT ![p].pc = "s_metrics"]
    /\ UNCHANGED <<nctx, ncancel, nextCtx, cancelled, lifeFrame>>

\* Start: `if n.options.PrometheusMetrics { n.metrics.Start(ctx) }`. The jobs
\* register their handlers; an error of a job ends Start.
StartMetrics(p) ==
    /\ th[p].pc = "s_metrics"
    /\ \/ th' = [th EXCEPT ![p].pc = "s_clients"]
       \/ opts.PrometheusMetrics /\ StartReturn(p, "err")
    /\ UNCHANGED <<lifeVars, lifeFrame>>

\* The wait of ensureClients after a failure without the clamp.
sleepForUnclamped(k) == k * 5

\* ensureClients: sleepFor, in seconds: 5 s times the failures so far, clamped
\* to 5 minutes.
sleepFor(k) ==
    IF k * 5 > 5 * 60 THEN 5 * 60 ELSE k * 5

\* ensureClients: one iteration of its loop, with at most max failures
\* explored. With a client that is a NodeSyncingProvider the loop ends; with a
\* cancelled context it returns the context's error; otherwise ehttp.New
\* either fails (failures++, time.Sleep(sleepFor), continue) or gives the
\* client that is installed together with the api.
ensureClientsUpTo(p, max) ==
    /\ th[p].pc = "s_clients"
    /\ IF Implements("NodeSyncingProvider")
       THEN /\ th' = [th EXCEPT ![p].pc = "s_init"]
            /\ UNCHANGED clientVars
       ELSE IF th[p].ctx \in cancelled
       THEN /\ StartReturn(p, "err")
            /\ UNCHANGED clientVars
       ELSE \/ /\ th[p].fails < max
               /\ th' = [th EXCEPT ![p].fails = @ + 1,
                                   ![p].slept = sleepFor(th[p].fails + 1)]
               /\ UNCHANGED clientVars
            \/ /\ upReachable
               /\ client' \in ClientKinds
               /\ api' = TRUE
               /\ UNCHANGED th
    /\ UNCHANGED <<healthVars, cacheVars, lifeVars, staticVars, bootVars, schedVars,
                   latchVars, outerVars, brokerVars, calls, overlap>>

ensureClients(p) == ensureClientsUpTo(p, MaxFailures)

\* initializeState: spec, err := n.FetchSpec(ctx).
initializeState(p) ==
    /\ th[p].pc = "s_init"
    /\ Enter(p, "spec", "none", th[p].ctx, "s_spec")
    /\ UNCHANGED <<healthVars, cacheVars, clientVars, lifeVars, staticVars, bootVars,
                   schedVars, latchVars, outerVars, brokerVars, calls>>

\* initializeState: the error check of FetchSpec, then
\* genesis, err := n.FetchGenesis(ctx).
initializeStateGenesis(p) ==
    /\ th[p].pc = "s_spec"
    /\ IF th[p].res = "err"
       THEN StartReturn(p, "err")
       ELSE th' = [th EXCEPT ![p] = [IdleThread EXCEPT !.pc = "call",
                        !.op = "genesis", !.ctx = th[p].ctx, !.ret = "s_genesis",
                        !.loc = th[p].rsp]]
    /\ UNCHANGED <<lifeVars, lifeFrame>>

\* An initializeState that builds the wall clock whatever FetchGenesis
\* returned.
initializeStateIgnoreError(p) ==
    /\ th[p].pc = "s_genesis"
    /\ wallclock' = [nil |-> FALSE, genesis |-> th[p].rsp, spec |-> th[p].loc]
    /\ th' = [th EXCEPT ![p].pc = "s_hooks"]
    /\ UNCHANGED <<healthVars, cacheVars, clientVars, lifeVars, staticVars, hooks,
                   ensurers, ready, readyPending, schedVars, latchVars, outerVars,
                   brokerVars, calls, overlap>>

\* initializeState: the error check of FetchGenesis, then the wall clock is
\* built from the genesis and the spec just fetched.
initializeStateWallclock(p) ==
    /\ th[p].pc = "s_genesis"
    /\ IF th[p].res = "err"
       THEN StartReturn(p, "err") /\ UNCHANGED wallclock
       ELSE /\ wallclock' = [nil |-> FALSE, genesis |-> th[p].rsp, spec |-> th[p].loc]
            /\ th' = [th EXCEPT ![p].pc = "s_hooks"]
    /\ UNCHANGED <<healthVars, cacheVars, clientVars, lifeVars, staticVars, hooks,
                   ensurers, ready, readyPending, schedVars, latchVars, outerVars,
                   brokerVars, calls, overlap>>

\* subscribeDownstream: the epoch, slot and finalized-checkpoint reactions are
\* registered with the context of this Start.
subscribeDownstream(p) ==
    /\ th[p].pc = "s_hooks"
    /\ hooks' = hooks \cup {th[p].ctx}
    /\ th' = [th EXCEPT ![p].pc = "s_ready"]
    /\ UNCHANGED <<healthVars, cacheVars, clientVars, lifeVars, staticVars, wallclock,
                   ensurers, ready, readyPending, schedVars, latchVars, outerVars,
                   brokerVars, calls, overlap>>

\* bootstrap, after subscribeDownstream: `go n.ensureBeaconSubscription(ctx)`,
\* `n.Ready = true`, `go n.publishReady(ctx)`, `return nil`.
bootstrap(p) ==
    /\ th[p].pc = "s_ready"
    /\ ensurers' = ensurers \cup {th[p].ctx}
    /\ ready' = TRUE
    /\ readyPending' = readyPending + 1
    /\ th' = [th EXCEPT ![p].pc = "s_syncgo"]
    /\ UNCHANGED <<healthVars, cacheVars, clientVars, lifeVars, staticVars, wallclock,
                   hooks, schedVars, latchVars, outerVars, brokerVars, calls, overlap>>

\* The goroutine spawned by bootstrap: n.publishReady(ctx).
publishReady ==
    /\ readyPending > 0
    /\ readyPending' = readyPending - 1
    /\ Emit("ready")
    /\ UNCHANGED <<healthVars, cacheVars, clientVars, lifeVars, staticVars, wallclock,
                   hooks, ensurers, ready, schedVars, latchVars, outerVars, th,
                   calls, overlap>>

\* Start: n.FetchSyncStatus(ctx).
StartFetchSyncStatus(p) ==
    /\ th[p].pc = "s_syncgo"
    /\ Enter(p, "sync", "none", th[p].ctx, "s_sync")
    /\ UNCHANGED <<healthVars, cacheVars, clientVars, lifeVars, staticVars, bootVars,
                   schedVars, latchVars, outerVars, brokerVars, calls>>

\* A Start that goes on whatever FetchSyncStatus returned.
StartFetchFinalityIgnoreError(p) ==
    /\ th[p].pc = "s_sync"
    /\ Enter(p, "finality", "head", th[p].ctx, "s_fin")
    /\ UNCHANGED <<healthVars, cacheVars, clientVars, lifeVars, staticVars, bootVars,
                   schedVars, latchVars, outerVars, brokerVars, calls>>

\* Start: the error check of FetchSyncStatus, then n.FetchFinality(ctx, "head").
StartFetchFinality(p) ==
    /\ th[p].pc = "s_sync"
    /\ IF th[p].res = "err"
       THEN StartReturn(p, "err") /\ UNCHANGED overlap
       ELSE Enter(p, "finality", "head", th[p].ctx, "s_fin")
    /\ UNCHANGED <<healthVars, cacheVars, clientVars, lifeVars, staticVars, bootVars,
                   schedVars, latchVars, outerVars, brokerVars, calls>>

\* Start, after FetchFinality (its error is only logged): the gocron scheduler
\* `s` is built, the four jobs are added with the context of this Start, and
\* s.StartAsync() runs it. The scheduler is held by the local `s` only: n.crons
\* is not assigned. An error of s.Every(...).Do(...) ends Start.
StartScheduler(p) ==
    /\ th[p].pc = "s_fin"
    /\ \/ /\ sched' = sched \cup {th[p].ctx}
          /\ StartReturn(p, "ok")
       \/ /\ StartReturn(p, "err")
          /\ UNCHANGED sched
    /\ UNCHANGED <<healthVars, cacheVars, clientVars, lifeVars, staticVars, bootVars,
                   crons, jobRuns, latchVars, outerVars, brokerVars, calls, overlap>>

----------------------------------------------------------------------------
(* The node: Stop (unnamed/part_021) *)

\* A Start has returned nil.
Started == \E s \in Starters : th[s].pc = "s_done" /\ th[s].res = "ok"

\* Stop: n.metrics.Stop() (every job's Stop returns nil), then
\* `if n.crons != nil { n.crons.Stop() }`.
StopBegin(q) ==
    /\ th[q].pc = "idle"
    /\ sched' = IF crons # 0 THEN {} ELSE sched
    /\ th' = [th EXCEPT ![q].pc = "t_lock",
                        ![q].after = IF Started THEN 1 ELSE 0]
    /\ UNCHANGED <<healthVars, cacheVars, clientVars, lifeVars, staticVars, bootVars,
                   crons, jobRuns, latchVars, outerVars, brokerVars, calls, overlap>>

\* Stop: n.lifecycleMu.Lock().
StopLock(q) ==
    /\ th[q].pc = "t_lock"
    /\ lifecycleMu = Free
    /\ lifecycleMu' = q
    /\ th' = [th EXCEPT ![q].pc = "t_cancel"]
    /\ UNCHANGED <<nctx, ncancel, nextCtx, cancelled, lifeFrame>>

\* Stop: `if n.cancel != nil { n.cancel() }`.
StopCancel(q) ==
    /\ th[q].pc = "t_cancel"
    /\ cancelled' = IF ncancel # 0 THEN cancelled \cup {ncancel} ELSE cancelled
    /\ th' = [th EXCEPT ![q].pc = "t_unlock", ![q].saw = ncancel]
    /\ UNCHANGED <<lifecycleMu, nctx, ncancel, nextCtx, lifeFrame>>

\* Stop: n.lifecycleMu.Unlock(); return nil.
StopUnlock(q) ==
    /\ th[q].pc = "t_unlock"
    /\ lifecycleMu' = Free
    /\ th' = [th EXCEPT ![q].pc = "t_done", ![q].res = "ok"]
    /\ UNCHANGED <<nctx, ncancel, nextCtx, cancelled, lifeFrame>>

----------------------------------------------------------------------------
(* The node: the periodic jobs and runHealthcheck (unnamed/part_021) *)

\* Number of runs of periodic jobs explored.
MaxJobRuns == 2

Jobs == {"health", "sync", "version", "peers"}

\* A running scheduler starts a run of one of its jobs; the job's closure
\* holds the context of the Start that built the scheduler.
CronRun(p) ==
    /\ th[p].pc \in {"idle", "done"}
    /\ jobRuns < MaxJobRuns
    /\ jobRuns' = jobRuns + 1
    /\ \E c \in sched, job \in Jobs :
         IF job = "health"
         THEN /\ th' = [th EXCEPT ![p] = [IdleThread EXCEPT !.pc = "h_call",
                                              !.op = "health", !.ctx = c]]
              /\ UNCHANGED overlap
         ELSE Enter(p, job, "none", c, "done")
    /\ UNCHANGED <<healthVars, cacheVars, clientVars, lifeVars, staticVars, bootVars,
                   crons, sched, latchVars, outerVars, brokerVars, calls>>

\* runHealthcheck: fetchIsHealthy, then RecordFail or RecordSuccess. The check
\* fails without a NodeSyncingProvider, with a cancelled context, and on any
\* transport error.
runHealthcheck(p) ==
    /\ th[p].pc = "h_call"
    /\ \/ /\ RecordFail
          /\ hist' = Append(hist, "F")
          /\ th' = [th EXCEPT ![p].pc = "h_failed", ![p].res = "err"]
       \/ /\ Implements("NodeSyncingProvider")
          /\ th[p].ctx \notin cancelled
          /\ upReachable
          /\ RecordSuccess
          /\ hist' = Append(hist, "S")
          /\ th' = [th EXCEPT ![p].pc = "h_ok", ![p].res = "ok"]
    /\ UNCHANGED <<cacheVars, clientVars, lifeVars, staticVars, bootVars, schedVars,
                   latchVars, outerVars, brokerVars, calls, overlap>>

\* runHealthcheck, failed check: n.publishHealthCheckFailed.
publishHealthCheckFailed(p) ==
    /\ th[p].pc = "h_failed"
    /\ Emit("health_check_failed")
    /\ th' = [th EXCEPT ![p].pc = "done"]
    /\ UNCHANGED <<healthVars, cacheVars, clientVars, lifeVars, staticVars, bootVars,
                   schedVars, latchVars, outerVars, calls, overlap>>

\* runHealthcheck without the latch: every successful check spawns
\* publishFirstTimeHealthy.
publishHealthCheckSucceededNoLatch(p) ==
    /\ th[p].pc = "h_ok"
    /\ hasEmittedFirstTimeHealthy' = TRUE
    /\ pendingFTH' = pendingFTH + 1
    /\ Emit("health_check_suceeded")
    /\ th' = [th EXCEPT ![p].pc = "done"]
    /\ UNCHANGED <<healthVars, cacheVars, clientVars, lifeVars, staticVars, bootVars,
                   schedVars, outerVars, calls, overlap>>

\* runHealthcheck, successful check: under firstHealthyMutex the latch is
\* tested and set, `go n.publishFirstTimeHealthy(ctx)` is spawned the first
\* time, and n.publishHealthCheckSucceeded runs.
publishHealthCheckSucceeded(p) ==
    /\ th[p].pc = "h_ok"
    /\ hasEmittedFirstTimeHealthy' = TRUE
    /\ pendingFTH' = IF hasEmittedFirstTimeHealthy THEN pendingFTH
                     ELSE pendingFTH + 1
    /\ Emit("health_check_suceeded")
    /\ th' = [th EXCEPT ![p].pc = "done"]
    /\ UNCHANGED <<healthVars, cacheVars, clientVars, lifeVars, staticVars, bootVars,
                   schedVars, outerVars, calls, overlap>>

\* The goroutine spawned by runHealthcheck: n.publishFirstTimeHealthy(ctx).
publishFirstTimeHealthy ==
    /\ pendingFTH > 0
    /\ pendingFTH' = pendingFTH - 1
    /\ Emit("first_time_healthy")
    /\ UNCHANGED <<healthVars, cacheVars, clientVars, lifeVars, staticVars, bootVars,
                   schedVars, hasEmittedFirstTimeHealthy, outerVars, th, calls,
                   overlap>>

----------------------------------------------------------------------------
(* The node: the slot reaction of subscribeDownstream and getBlock *)

\* Number of slot changes explored.
MaxSlotChanges == 2

\* The slots the wall clock announces.
Slots == {0, 1, 42}

\* fmt.Sprintf("%v", slot.Number()-1): a uint64 subtraction, then decimal.
ProbeId(s) == IF s = 0 THEN "18446744073709551615" ELSE ToString(s - 1)

\* (*eapi.Error).Error(): "<method> failed with status <code>: <data>",
\* as the words of the message.
ApiErrorText(status) == <<"GET", "failed", "with", "status", ToString(status)>>

\* What provider.SignedBeaconBlock answers: the block, an *eapi.Error with
\* the HTTP status, or an error of another type with its message.
BlockResponses ==
    {[kind |-> "block"]}
      \cup {[kind |-> "apiError", status |-> c] : c \in {404, 503, 500}}
      \cup {[kind |-> "error", text |-> t] :
                t \in {<<"connection", "refused">>,
                       <<"GET", "failed", "with", "status", "404">>}}

\* error(nil)
NoError == <<>>

\* A getBlock that hands every upstream error to its caller as it came.
getBlockUntranslated(r) ==
    CASE r.kind = "block" -> [block |-> TRUE, err |-> NoError]
      [] r.kind = "apiError" -> [block |-> FALSE, err |-> ApiErrorText(r.status)]
      [] r.kind = "error" -> [block |-> FALSE, err |-> r.text]

\* getBlock after the capability assertion: the translation of the answer
\* into (block, err).
getBlock(r) ==
    CASE r.kind = "block" -> [block |-> TRUE, err |-> NoError]
      [] r.kind = "apiError" /\ r.status = 404 -> [block |-> FALSE, err |-> NoError]
      [] r.kind = "apiError" /\ r.status = 503 ->
            [block |-> FALSE, err |-> <<"beacon", "node", "is", "syncing">>]
      [] r.kind = "apiError" /\ r.status \notin {404, 503} ->
            [block |-> FALSE, err |-> ApiErrorText(r.status)]
      [] r.kind = "error" -> [block |-> FALSE, err |-> r.text]

\* strings.Contains(err.Error(), "404"), on the words of the message.
Contains404(err) == \E i \in DOMAIN err : err[i] = "404"

\* The OnSlotChanged callback for slot s, the upstream answering the probe
\* with r: nothing unless DetectEmptySlots is set and the node is not syncing;
\* then FetchBlock(slot-1), and publishEmptySlot(slot) when the error it
\* returns mentions 404.
OnSlotChanged(s, r) ==
    /\ slotChanges < MaxSlotChanges
    /\ slotChanges' = slotChanges + 1
    /\ IF ~opts.DetectEmptySlots \/ Syncing
       THEN UNCHANGED <<probes, emptySlots, brokerVars>>
       ELSE IF ~Implements("SignedBeaconBlockProvider")
       THEN UNCHANGED <<probes, emptySlots, brokerVars>>
       ELSE /\ probes' = Append(probes, [slot |-> s, id |-> ProbeId(s), rsp |-> r,
                                            got |-> getBlock(r)])
            /\ LET err == getBlock(r).err IN
               IF err # NoError /\ Contains404(err)
               THEN /\ Emit("slot_empty")
                    /\ emptySlots' = Append(emptySlots,
                                            [slot |-> s, probe |-> Len(probes) + 1])
               ELSE UNCHANGED <<emptySlots, brokerVars>>
    /\ UNCHANGED <<healthVars, cacheVars, clientVars, lifeVars, staticVars, bootVars,
                   schedVars, latchVars, upVars, ingressVars, th, calls, overlap>>

----------------------------------------------------------------------------
(* The node: handler registration, the subscription ensurer and the event
   ingress (unnamed/part_022, pkg/beacon/subscriptions.go) *)

\* Number of handlers registered.
MaxHandlers == 3
\* Number of timer ticks of the ensurers.
MaxTicks == 2
\* Number of upstream events received.
MaxEvents == 1

\* The topics handlers are registered on: OnBlock and OnEvent.
RegTopics == {"block", RawEvent}

\* On<Topic>(ctx, handler): n.broker.On(topic, listener). `fails` says whether
\* the handler returns an error; `since` is the number of events the topic had
\* seen when the handler was registered.
OnTopic(t, f) ==
    /\ Len(handlers) < MaxHandlers
    /\ handlers' = Append(handlers, [topic |-> t, fails |-> f, since |-> emitted[t]])
    /\ invoked' = Append(invoked, 0)
    /\ UNCHANGED <<emitted, errlog, ran>>
    /\ UNCHANGED <<healthVars, cacheVars, clientVars, lifeVars, staticVars, bootVars,
                   schedVars, latchVars, outerVars, th, calls, overlap>>

\* subscribeToBeaconEvents(ctx): without an EventsProvider an error and no
\* call; otherwise one provider.Events call per topic, in order, returning at
\* the first call that fails and leaving the streams opened before it open.
subscribeToBeaconEvents(c) ==
    /\ subscribes' = subscribes + 1
    /\ IF ~Implements("EventsProvider")
       THEN UNCHANGED <<eventsCalls, streams, ensurerRet>>
       ELSE LET topics == opts.BeaconSubscription.Topics IN
            \E k \in 0..Len(topics) :
               /\ eventsCalls' = eventsCalls + (IF k < Len(topics) THEN k + 1 ELSE k)
               /\ streams' = streams \o [i \in 1..k |-> [topic |-> topics[i], ctx |-> c,
                                                       open |-> TRUE]]
               /\ ensurerRet' = IF k = Len(topics)
                                THEN ensurerRet \cup {[ctx |-> c, res |-> "nil"]}
                                ELSE ensurerRet

\* An ensurer that does not test BeaconSubscription.Enabled.
ensureBeaconSubscriptionNoGate(c) ==
    /\ c \in ensurers
    /\ c \notin {r.ctx : r \in ensurerRet}
    /\ ticks < MaxTicks
    /\ ticks' = ticks + 1
    /\ IF Len(opts.BeaconSubscription.Topics) = 0 \/ client.isNil
       THEN UNCHANGED <<ensurerRet, subscribes, eventsCalls, streams>>
       ELSE subscribeToBeaconEvents(c)
    /\ UNCHANGED <<nextEvent, lastEventTime, inflight, trace>>
    /\ UNCHANGED <<healthVars, cacheVars, clientVars, lifeVars, staticVars, bootVars,
                   schedVars, latchVars, upVars, slotVars, brokerVars, th, calls,
                   overlap>>

\* An ensurer whose select has no ctx.Done() case: it keeps ticking.
ensureBeaconSubscriptionNoDone(c) ==
    /\ c \in ensurers
    /\ c \notin {r.ctx : r \in ensurerRet}
    /\ ticks < MaxTicks
    /\ ticks' = ticks + 1
    /\ IF \/ Len(opts.BeaconSubscription.Topics) = 0
          \/ client.isNil
          \/ ~opts.BeaconSubscription.Enabled
       THEN UNCHANGED <<ensurerRet, subscribes, eventsCalls, streams>>
       ELSE subscribeToBeaconEvents(c)
    /\ UNCHANGED <<nextEvent, lastEventTime, inflight, trace>>
    /\ UNCHANGED <<healthVars, cacheVars, clientVars, lifeVars, staticVars, bootVars,
                   schedVars, latchVars, upVars, slotVars, brokerVars, th, calls,
                   overlap>>

\* ensureBeaconSubscription(ctx), one round of its loop, from the moment its
\* select proceeds. The goroutine waits in the select on ctx.Done() and on a
\* timer made for this round: with the context done it returns the context's
\* error; the timer's case is taken only when the timer fires while the
\* context is not done, and then the round continues while the topic list is
\* empty, the client is nil or the subscription is disabled, and otherwise
\* subscribes, returning nil when that succeeded.
ensureBeaconSubscription(c) ==
    /\ c \in ensurers
    /\ c \notin {r.ctx : r \in ensurerRet}
    /\ \/ /\ c \in cancelled
          /\ ensurerRet' = ensurerRet \cup {[ctx |-> c, res |-> "err"]}
          /\ UNCHANGED <<ticks, subscribes, eventsCalls, streams>>
       \/ /\ c \notin cancelled
          /\ ticks < MaxTicks
          /\ ticks' = ticks + 1
          /\ IF \/ Len(opts.BeaconSubscription.Topics) = 0
                \/ client.isNil
                \/ ~opts.BeaconSubscription.Enabled
             THEN UNCHANGED <<ensurerRet, subscribes, eventsCalls, streams>>
             ELSE subscribeToBeaconEvents(c)
    /\ UNCHANGED <<nextEvent, lastEventTime, inflight, trace>>
    /\ UNCHANGED <<healthVars, cacheVars, clientVars, lifeVars, staticVars, bootVars,
                   schedVars, latchVars, upVars, slotVars, brokerVars, th, calls,
                   overlap>>

\* Number of streams that close.
MaxCloses == 2

\* The i-th stream ends: the upstream closes the connection and the client's
\* subscription routine returns. Nothing in the node is told.
StreamClose(i) ==
    /\ i \in DOMAIN streams
    /\ streams[i].open
    /\ Cardinality({j \in DOMAIN streams : ~streams[j].open}) < MaxCloses
    /\ streams' = [streams EXCEPT ![i].open = FALSE]
    /\ UNCHANGED <<ensurerRet, ticks, subscribes, eventsCalls, nextEvent, inflight,
                   lastEventTime,
                   trace>>
    /\ UNCHANGED <<healthVars, cacheVars, clientVars, lifeVars, staticVars, bootVars,
                   schedVars, latchVars, upVars, slotVars, brokerVars, th, calls,
                   overlap>>

\* The clock reaches the genesis time.
GenesisTime ==
    /\ beforeGenesis
    /\ beforeGenesis' = FALSE
    /\ UNCHANGED <<healthVars, cacheVars, clientVars, lifeVars, staticVars, bootVars,
                   schedVars, latchVars, upReachable, upFinality, upChanges,
                   ingressVars, slotVars, brokerVars, th, calls, overlap>>

\* What the ingress leaves alone besides the broker and its own bookkeeping.
ingressFrame == <<healthVars, cacheVars, clientVars, lifeVars, staticVars, bootVars,
                  schedVars, latchVars, upVars, slotVars, th, calls, overlap,
                  ensurerRet, ticks, subscribes, eventsCalls, streams>>

\* A handleEvent that emits the typed event at once and leaves raw_event out.
handleEventTypedFirst(i, valid) ==
    /\ i \in DOMAIN streams
    /\ streams[i].open
    /\ streams[i].ctx \notin cancelled
    /\ nextEvent < MaxEvents
    /\ nextEvent' = nextEvent + 1
    /\ lastEventTime' = nextEvent + 1
    /\ IF streams[i].topic \in ProxiedTopics
       THEN /\ Emit(streams[i].topic)
            /\ trace' = Append(trace, [kind |-> "typed", id |-> nextEvent + 1,
                                       topic |-> streams[i].topic])
       ELSE UNCHANGED <<brokerVars, trace>>
    /\ UNCHANGED inflight
    /\ UNCHANGED ingressFrame

\* The handler of the i-th stream receives an upstream event of the stream's
\* topic, with a payload of the topic's type or not, with at most max events
\* explored: it writes n.lastEventTime, and handleEvent publishes raw_event
\* first.
handleEventUpTo(i, valid, max) ==
    /\ i \in DOMAIN streams
    /\ streams[i].open
    /\ streams[i].ctx \notin cancelled
    /\ nextEvent < max
    /\ nextEvent' = nextEvent + 1
    /\ lastEventTime' = nextEvent + 1
    /\ Emit(RawEvent)
    /\ trace' = Append(trace, [kind |-> "raw", id |-> nextEvent + 1,
                               topic |-> streams[i].topic])
    /\ inflight' = inflight \cup {[id |-> nextEvent + 1, topic |-> streams[i].topic,
                                   valid |-> valid]}
    /\ UNCHANGED ingressFrame

handleEvent(i, valid) == handleEventUpTo(i, valid, MaxEvents)

\* A stream handler that gives its stream up when handleEvent returns an
\* error.
handleEventTopicFatal(e) ==
    /\ e \in inflight
    /\ inflight' = inflight \ {e}
    /\ IF e.topic \in ProxiedTopics /\ e.valid
       THEN /\ Emit(e.topic)
            /\ trace' = Append(trace, [kind |-> "typed", id |-> e.id, topic |-> e.topic])
            /\ UNCHANGED streams
       ELSE /\ errlog' = Append(errlog,
                            [src |-> "ingress", topic |-> e.topic, err |-> 0,
                             cause |-> IF e.topic \in ProxiedTopics
                                       THEN "invalid" ELSE "unknown"])
            /\ streams' = [i \in DOMAIN streams |->
                             [streams[i] EXCEPT !.open = FALSE]]
            /\ UNCHANGED <<emitted, handlers, invoked, ran, trace>>
    /\ UNCHANGED <<nextEvent, lastEventTime, ensurerRet, ticks, subscribes,
                   eventsCalls>>
    /\ UNCHANGED <<healthVars, cacheVars, clientVars, lifeVars, staticVars, bootVars,
                   schedVars, latchVars, upVars, slotVars, th, calls, overlap>>

\* handleEvent after publishEvent: the switch on event.Topic. A known topic
\* with a payload of its type publishes the typed event; a payload of another
\* type, and a topic without a case, give an error that the stream's handler
\* logs.
handleEventTopic(e) ==
    /\ e \in inflight
    /\ inflight' = inflight \ {e}
    /\ IF e.topic \in ProxiedTopics /\ e.valid
       THEN /\ Emit(e.topic)
            /\ trace' = Append(trace, [kind |-> "typed", id |-> e.id, topic |-> e.topic])
       ELSE /\ errlog' = Append(errlog,
                            [src |-> "ingress", topic |-> e.topic, err |-> 0,
                             cause |-> IF e.topic \in ProxiedTopics
                                       THEN "invalid" ELSE "unknown"])
            /\ UNCHANGED <<emitted, handlers, invoked, ran, trace>>
    /\ UNCHANGED <<nextEvent, lastEventTime>>
    /\ UNCHANGED ingressFrame

----------------------------------------------------------------------------
(* Specifications *)

\* NewNode: empty cache slots, no client, no lifecycle context.
\* No function of package state has been called.
NoStateCall == [fn |-> "none"]

NoStateInputs == forkEpochs = <<>> /\ blobSchedule = <<>> /\ stateRes = NoStateCall

InitNodeFields ==
    /\ spec = 0 /\ genesis = 0 /\ nodeVersion = 0 /\ peers = 0
    /\ finality = NilFinality /\ syncstate = 0
    /\ networkID = 0 /\ statMu = {} /\ syncWrites = {}
    /\ lifecycleMu = Free /\ nctx = 0 /\ ncancel = 0 /\ nextCtx = 0
    /\ cancelled = {}
    /\ wallclock = NoWallclock /\ hooks = {} /\ ensurers = {}
    /\ ready = FALSE /\ readyPending = 0
    /\ crons = 0 /\ sched = {} /\ jobRuns = 0
    /\ hasEmittedFirstTimeHealthy = FALSE /\ pendingFTH = 0
    /\ emitted = [t \in Topics |-> 0]
    /\ handlers = <<>> /\ invoked = <<>> /\ errlog = <<>>
    /\ ran = [topic |-> "none", order |-> <<>>]
    /\ ensurerRet = {} /\ ticks = 0 /\ subscribes = 0 /\ eventsCalls = 0
    /\ streams = <<>> /\ nextEvent = 0 /\ inflight = {} /\ trace = <<>>
    /\ lastEventTime = 0
    /\ slotChanges = 0 /\ probes = <<>> /\ emptySlots = <<>>
    /\ th = [p \in Threads |-> IdleThread]
    /\ calls = 0
    /\ overlap = FALSE

InitNode == InitNodeFields /\ NoStateInputs

InitUpstream ==
    /\ upReachable = TRUE
    /\ upFinality = BaseFinality
    /\ upChanges = 0
    /\ beforeGenesis = FALSE

\* An upstream that refuses every connection.
InitUnreachable ==
    /\ upReachable = FALSE
    /\ upFinality = BaseFinality
    /\ upChanges = 0
    /\ beforeGenesis = FALSE

InitNoClient == client = NoClient /\ api = FALSE

InitDefaultOptions ==
    opts = OptionsOf(TRUE, FALSE, DefaultDisabledBeaconSubscriptionOptions)

\* -- Health alone: any sequence of RecordSuccess / RecordFail.
InitHealth ==
    /\ \E succ \in 1..MaxThreshold, fail \in 1..MaxThreshold : NewHealth(succ, fail)
    /\ hist = <<>>
    /\ InitNode /\ InitUpstream /\ InitNoClient /\ InitDefaultOptions

NextHealth ==
    \/ DoRecordSuccess
    \/ DoRecordFail

SpecHealth == InitHealth /\ [][NextHealth]_vars

\* -- The caching fetchers called by users of the node, before or after
\*    ensureClients has installed a client.
InitFetch ==
    /\ NewHealth(3, 3) /\ hist = <<>>
    /\ InitNode /\ InitUpstream /\ InitDefaultOptions
    /\ \/ InitNoClient
       \/ client \in ClientKinds /\ api = TRUE

NextFetch ==
    \/ \E p \in Callers : CallerInvoke(p)
    \/ \E p \in Callers : FetchCall(p)
    \/ \E p \in Callers : FetchCompare(p)
    \/ \E p \in Callers : FetchStore(p)
    \/ \E p \in Callers : FetchPublish(p)
    \/ UpstreamChange

SpecFetch == InitFetch /\ [][NextFetch]_vars

\* -- The node through its life: one Start, one Stop at any moment, and the
\*    scheduler's jobs once it runs.
InitLife ==
    /\ NewHealth(3, 3) /\ hist = <<>>
    /\ InitNode /\ InitUpstream /\ InitDefaultOptions /\ InitNoClient

\* The steps of Start taken by thread p.
StartStep(p) ==
    \/ StartBegin(p)
    \/ StartLock(p)
    \/ StartStoreCtx(p)
    \/ StartStoreCancel(p)
    \/ StartUnlock(p)
    \/ StartMetrics(p)
    \/ ensureClients(p)
    \/ initializeState(p)
    \/ initializeStateGenesis(p)
    \/ initializeStateWallclock(p)
    \/ subscribeDownstream(p)
    \/ bootstrap(p)
    \/ StartFetchSyncStatus(p)
    \/ StartFetchFinality(p)
    \/ StartScheduler(p)

\* The steps of Stop taken by thread q.
StopStep(q) ==
    \/ StopBegin(q)
    \/ StopLock(q)
    \/ StopCancel(q)
    \/ StopUnlock(q)

\* The steps of a fetcher taken by thread p.
FetchStep(p) ==
    \/ FetchCall(p)
    \/ FetchCompare(p)
    \/ FetchStore(p)
    \/ FetchPublish(p)

\* The steps of the scheduler's goroutine.
CronStep(p) ==
    \/ CronRun(p)
    \/ runHealthcheck(p)
    \/ publishHealthCheckFailed(p)
    \/ publishHealthCheckSucceeded(p)

NextNode ==
    \/ StartStep("starter1")
    \/ StopStep("stopper1")
    \/ CronStep("cron1")
    \/ \E p \in {"starter1", "cron1"} : FetchStep(p)
    \/ publishReady
    \/ publishFirstTimeHealthy

SpecNode == InitLife /\ [][NextNode]_vars

\* -- Concurrent calls of Start and Stop on a node whose upstream is
\*    unreachable: every Start stores its context and then stays in
\*    ensureClients until its context is cancelled.
InitLifecycle ==
    /\ NewHealth(3, 3) /\ hist = <<>>
    /\ InitNode /\ InitUnreachable /\ InitDefaultOptions /\ InitNoClient

NextLifecycle ==
    \/ \E p \in Starters : StartBegin(p)
    \/ \E p \in Starters : StartLock(p)
    \/ \E p \in Starters : StartStoreCtx(p)
    \/ \E p \in Starters : StartStoreCancel(p)
    \/ \E p \in Starters : StartUnlock(p)
    \/ \E p \in Starters : StartMetrics(p)
    \/ \E p \in Starters : ensureClients(p)
    \/ \E q \in Stoppers : StopStep(q)

SpecLifecycle == InitLifecycle /\ [][NextLifecycle]_vars

\* -- The client bootstrap of one Start against an upstream that refuses and
\*    later accepts connections, with a Stop at any moment.
\* Largest value of the `failures` local explored for the retry waits.
MaxRetries == 62

NextClients ==
    \/ StartBegin("starter1")
    \/ StartLock("starter1")
    \/ StartStoreCtx("starter1")
    \/ StartStoreCancel("starter1")
    \/ StartUnlock("starter1")
    \/ StartMetrics("starter1")
    \/ ensureClientsUpTo("starter1", MaxRetries)
    \/ StopBegin("stopper1")
    \/ StopLock("stopper1")
    \/ StopCancel("stopper1")
    \/ StopUnlock("stopper1")

SpecClients == InitLife /\ [][NextClients]_vars

\* -- The node after a Start that returned nil: client cl installed, spec,
\*    genesis, sync state sy and head finality fetched, the wall clock built,
\*    the reactions registered, the ensurer spawned and the scheduler running.
StartedNode(cl, sy) ==
    /\ NewHealth(3, 3) /\ hist = <<>>
    /\ client = cl /\ api = TRUE
    /\ spec = 1 /\ genesis = 1 /\ nodeVersion = 0 /\ peers = 0
    /\ finality = BaseFinality /\ syncstate = sy
    /\ networkID = 0 /\ statMu = {} /\ syncWrites = {sy}
    /\ lifecycleMu = Free /\ nctx = 1 /\ ncancel = 1 /\ nextCtx = 1
    /\ cancelled = {}
    /\ wallclock = [nil |-> FALSE, genesis |-> 1, spec |-> 1]
    /\ hooks = {1} /\ ensurers = {1}
    /\ ready = TRUE /\ readyPending = 0
    /\ crons = 0 /\ sched = {1} /\ jobRuns = 0
    /\ hasEmittedFirstTimeHealthy = FALSE /\ pendingFTH = 0
    /\ emitted = [t \in Topics |->
                    IF t \in {"spec_updated", "sync_status", "ready",
                              "finality_checkpoint_updated"} THEN 1 ELSE 0]
    /\ handlers = <<>> /\ invoked = <<>> /\ errlog = <<>>
    /\ ran = [topic |-> "none", order |-> <<>>]
    /\ ensurerRet = {} /\ ticks = 0 /\ subscribes = 0 /\ eventsCalls = 0
    /\ streams = <<>> /\ nextEvent = 0 /\ inflight = {} /\ trace = <<>>
    /\ lastEventTime = 0
    /\ slotChanges = 0 /\ probes = <<>> /\ emptySlots = <<>>
    /\ th = [p \in Threads |->
               IF p = "starter1"
               THEN [IdleThread EXCEPT !.pc = "s_done", !.op = "finality",
                        !.sid = "head", !.ctx = 1, !.ret = "s_fin", !.res = "ok",
                        !.fin = BaseFinality, !.chg = TRUE, !.wrote = TRUE,
                        !.pub = TRUE, !.loc = 1]
               ELSE IdleThread]
    /\ calls = 0
    /\ overlap = FALSE
    /\ NoStateInputs

\* -- The slot reaction on a started node.
SlotClients ==
    {ClientOf(AllProviders), ClientOf(AllProviders \ {"SignedBeaconBlockProvider"})}

InitSlot ==
    /\ \E cl \in SlotClients, sy \in Values : StartedNode(cl, sy)
    /\ InitUpstream
    /\ \E d \in BOOLEAN :
          opts = OptionsOf(FALSE, d, DefaultDisabledBeaconSubscriptionOptions)

NextSlot == \E s \in Slots, r \in BlockResponses : OnSlotChanged(s, r)

SpecSlot == InitSlot /\ [][NextSlot]_vars

\* -- The ensurer, the event ingress and the handlers of users of a started
\*    node.
IngressClients ==
    {ClientOf(AllProviders), ClientOf(AllProviders \ {"EventsProvider"})}

\* The topic lists configured: none, and one with a proxied topic and a topic
\* handleEvent has no case for.
TopicLists == {<<>>, <<"block", "block_gossip">>}

InitIngress ==
    /\ \E cl \in IngressClients : StartedNode(cl, 1)
    /\ InitUpstream
    /\ \E e \in BOOLEAN, t \in TopicLists :
          opts = OptionsOf(FALSE, FALSE, BeaconSubscriptionOptions(e, t))

NextIngress ==
    \/ \E t \in RegTopics, f \in BOOLEAN : OnTopic(t, f)
    \/ \E c \in ensurers : ensureBeaconSubscription(c)
    \/ \E i \in DOMAIN streams, valid \in BOOLEAN : handleEvent(i, valid)
    \/ \E e \in inflight : handleEventTopic(e)

SpecIngress == InitIngress /\ [][NextIngress]_vars

\* -- The streams of a started node over several upstream events.
\* Number of upstream events received on the streams.
MaxStreamEvents == 3

NextStream ==
    \/ \E c \in ensurers : ensureBeaconSubscription(c)
    \/ \E i \in DOMAIN streams, valid \in BOOLEAN :
          handleEventUpTo(i, valid, MaxStreamEvents)
    \/ \E e \in inflight : handleEventTopic(e)

SpecStream == InitIngress /\ [][NextStream]_vars

\* -- One Health shared by goroutines that call its methods concurrently.
HealthThreads == Callers

NextHealthCalls ==
    \/ \E p \in HealthThreads : HealthCall(p)
    \/ \E p \in HealthThreads : HealthLock(p)
    \/ \E p \in HealthThreads : HealthLoad(p)
    \/ \E p \in HealthThreads : HealthStore(p)
    \/ \E p \in HealthThreads : HealthRead(p)
    \/ \E p \in HealthThreads : HealthUnlock(p)

SpecHealthCalls == InitLife /\ [][NextHealthCalls]_vars

\* -- The subscription ensurer of a node started before or after the genesis
\*    time, and streams that close.
InitEnsurer ==
    /\ \E cl \in IngressClients, sy \in Values : StartedNode(cl, sy)
    /\ upReachable = TRUE /\ upFinality = BaseFinality /\ upChanges = 0
    /\ beforeGenesis \in BOOLEAN
    /\ \E e \in BOOLEAN, t \in TopicLists :
          opts = OptionsOf(FALSE, FALSE, BeaconSubscriptionOptions(e, t))

NextEnsurer ==
    \/ \E c \in ensurers : ensureBeaconSubscription(c)
    \/ \E i \in DOMAIN streams : StreamClose(i)
    \/ GenesisTime

SpecEnsurer == InitEnsurer /\ [][NextEnsurer]_vars

\* -- The reactions subscribeDownstream registers for epoch changes and
\*    finalized_checkpoint events, the ensurer, and a Stop at any moment.
\* The goroutines the wall clock and the broker run the reactions on.
ReactionThreads == CronThreads

\* The reaction wallclock.OnEpochChanged registered starts on thread p with
\* the context its closure captured and enters its time.Sleep of 3 seconds.
OnEpochChanged(p) ==
    /\ th[p].pc \in {"idle", "done"}
    /\ calls < MaxCalls
    /\ calls' = calls + 1
    /\ \E c \in hooks :
          th' = [th EXCEPT ![p] = [IdleThread EXCEPT !.pc = "g_sleep",
                                                     !.op = "epoch", !.ctx = c]]
    /\ UNCHANGED <<healthVars, cacheVars, clientVars, lifeVars, staticVars, bootVars,
                   schedVars, latchVars, outerVars, brokerVars, overlap>>

\* The handler n.OnFinalizedCheckpoint registered starts on thread p with the
\* context of the registration and enters its time.Sleep of 3 seconds.
OnFinalizedCheckpoint(p) ==
    /\ th[p].pc \in {"idle", "done"}
    /\ calls < MaxCalls
    /\ calls' = calls + 1
    /\ \E c \in hooks :
          th' = [th EXCEPT ![p] = [IdleThread EXCEPT !.pc = "g_sleep",
                                                     !.op = "finalized", !.ctx = c]]
    /\ UNCHANGED <<healthVars, cacheVars, clientVars, lifeVars, staticVars, bootVars,
                   schedVars, latchVars, outerVars, brokerVars, overlap>>

\* The reaction after its sleep: time.Sleep returns when the 3 seconds have
\* passed, whatever happened to the context, and n.FetchFinality(ctx, "head")
\* is called.
GraceFetch(p) ==
    /\ th[p].pc = "g_sleep"
    /\ Enter(p, "finality", "head", th[p].ctx, "done")
    /\ UNCHANGED <<healthVars, cacheVars, clientVars, lifeVars, staticVars, bootVars,
                   schedVars, latchVars, outerVars, brokerVars, calls>>

InitGrace ==
    /\ StartedNode(ClientOf(AllProviders), 1)
    /\ upReachable = TRUE /\ upFinality = BaseFinality /\ upChanges = 0
    /\ beforeGenesis = FALSE
    /\ opts = OptionsOf(FALSE, FALSE, BeaconSubscriptionOptions(TRUE, <<"block">>))

NextGrace ==
    \/ \E p \in ReactionThreads : OnEpochChanged(p)
    \/ \E p \in ReactionThreads : OnFinalizedCheckpoint(p)
    \/ \E p \in ReactionThreads : GraceFetch(p)
    \/ \E p \in ReactionThreads : FetchStep(p)
    \/ \E c \in ensurers : ensureBeaconSubscription(c)
    \/ StopStep("stopper1")
    \/ UpstreamChange

SpecGrace == InitGrace /\ [][NextGrace]_vars

\* -- The ensurer of a started node and a Stop at any moment.
NextEnsurerLoop ==
    \/ \E c \in ensurers : ensureBeaconSubscription(c)
    \/ StopBegin("stopper1")
    \/ StopLock("stopper1")
    \/ StopCancel("stopper1")
    \/ StopUnlock("stopper1")

SpecEnsurerLoop == InitEnsurer /\ [][NextEnsurerLoop]_vars

\* The ensurer is a goroutine of its own on a 2-second timer: it takes its
\* next step whenever it has one.
SpecReconnect ==
    /\ SpecEnsurer
    /\ WF_vars(\E c \in ensurers : ensureBeaconSubscription(c))

\* -- One Status shared by writers and readers that run concurrently.
StatusThreads == Callers \cup {"cron1"}

NextStatus ==
    \/ \E p \in StatusThreads : StatusCall(p)
    \/ \E p \in StatusThreads : StatusLock(p)
    \/ \E p \in StatusThreads : StatusWrite(p)
    \/ \E p \in StatusThreads : StatusRead(p)
    \/ \E p \in StatusThreads : StatusUnlock(p)

SpecStatus == InitLife /\ [][NextStatus]_vars

\* -- One user fetching while another reads the cache through the getters.
NextGetters ==
    \/ CallerInvoke("caller1")
    \/ FetchStep("caller1")
    \/ CallerGet("caller2")

SpecGetters == InitFetch /\ [][NextGetters]_vars

\* -- The periodic jobs of a started node, with runs that overlap.
InitJobs ==
    /\ \E cl \in ClientKinds, sy \in Values : StartedNode(cl, sy)
    /\ InitUpstream /\ InitDefaultOptions

NextJobs ==
    \/ \E p \in CronThreads : CronStep(p)
    \/ \E p \in CronThreads : FetchCall(p)
    \/ \E p \in CronThreads : FetchStore(p)
    \/ \E p \in CronThreads : FetchPublish(p)
    \/ publishFirstTimeHealthy

SpecJobs == InitJobs /\ [][NextJobs]_vars

----------------------------------------------------------------------------
(* Package state: the fork epochs of a Spec (pkg/beacon/state) *)

\* Largest epoch of a fork and of a fork query.
MaxEpoch == 1
\* Longest ForkEpochs list.
MaxForks == 3

Epochs == 0..MaxEpoch

\* The canonical order of the forks.
ForkOrder == <<"phase0", "altair", "bellatrix", "capella", "deneb", "electra">>

ForkNames == {ForkOrder[i] : i \in DOMAIN ForkOrder}

ForkEpoch(n, e) == [name |-> n, epoch |-> e]

\* The ForkEpochs lists a Spec carries: NewSpec appends one entry per
\* <NAME>_FORK_EPOCH key of a map, so names are distinct and the order is any.
ForkLists ==
    UNION {{F \in [1..n -> [name : ForkNames, epoch : Epochs]] :
               \A i, j \in 1..n : i # j => F[i].name # F[j].name} :
           n \in 0..MaxForks}

\* &ForkEpoch{}: the zero value, with Epoch 0 and the unknown data version.
ZeroFork == ForkEpoch("unknown", 0)
\* A nil *ForkEpoch.
NilFork == ForkEpoch("nil", 0)

\* ForkEpochs.IndexOf: the position in ForkOrder, from 0, or -1.
IndexOf(name) ==
    IF \E i \in DOMAIN ForkOrder : ForkOrder[i] = name
    THEN (CHOOSE i \in DOMAIN ForkOrder : ForkOrder[i] = name) - 1
    ELSE -1

\* ForkEpoch.Active
ForkEpochActive(fork, epoch) == epoch >= fork.epoch

\* sort.Slice with the comparison of ForkEpochs.Active: ascending IndexOf. The
\* names of a list are distinct, so no two entries compare equal.
RECURSIVE SortByIndexOf(_)
SortByIndexOf(s) ==
    IF s = <<>> THEN <<>>
    ELSE LET i == CHOOSE i \in DOMAIN s :
                      \A j \in DOMAIN s : IndexOf(s[i].name) <= IndexOf(s[j].name)
         IN <<s[i]>> \o SortByIndexOf(SubSeq(s, 1, i - 1) \o SubSeq(s, i + 1, Len(s)))

\* ForkEpochs.Active: the forks active at the epoch, in canonical order.
ForkEpochsActive(F, epoch) ==
    SortByIndexOf(SelectSeq(F, LAMBDA fork : ForkEpochActive(fork, epoch)))

\* Before the loop of CurrentFork and of PreviousFork.
NoLargest == [found |-> FALSE, largest |-> ZeroFork]

\* The loop of CurrentFork with a strict comparison.
RECURSIVE CurrentForkLoopStrict(_, _)
CurrentForkLoopStrict(s, acc) ==
    IF s = <<>> THEN acc
    ELSE CurrentForkLoopStrict(Tail(s),
            IF Head(s).epoch > acc.largest.epoch
            THEN [found |-> TRUE, largest |-> Head(s)]
            ELSE acc)

\* The loop of CurrentFork over the active forks.
RECURSIVE CurrentForkLoop(_, _)
CurrentForkLoop(s, acc) ==
    IF s = <<>> THEN acc
    ELSE CurrentForkLoop(Tail(s),
            IF Head(s).epoch >= acc.largest.epoch
            THEN [found |-> TRUE, largest |-> Head(s)]
            ELSE acc)

\* ForkEpochs.CurrentFork
CurrentFork(F, epoch) ==
    LET r == CurrentForkLoop(ForkEpochsActive(F, epoch), NoLargest) IN
    IF ~r.found
    THEN [fork |-> ZeroFork, err |-> "no active fork"]
    ELSE [fork |-> r.largest, err |-> "nil"]

\* The loop of PreviousFork over the active forks.
RECURSIVE PreviousForkLoop(_, _, _, _)
PreviousForkLoop(s, current, epoch, acc) ==
    IF s = <<>> THEN acc
    ELSE PreviousForkLoop(Tail(s), current, epoch,
            IF /\ ForkEpochActive(Head(s), epoch)
               /\ Head(s).name # current.name
               /\ Head(s).epoch > acc.largest.epoch
            THEN [found |-> TRUE, largest |-> Head(s)]
            ELSE acc)

\* ForkEpochs.PreviousFork
PreviousFork(F, epoch) ==
    IF Len(F) = 1 THEN CurrentFork(F, epoch)
    ELSE LET current == CurrentFork(F, epoch) IN
         IF current.err # "nil"
         THEN [fork |-> NilFork, err |-> current.err]
         ELSE LET r == PreviousForkLoop(ForkEpochsActive(F, epoch), current.fork,
                                        epoch, NoLargest) IN
              IF ~r.found
              THEN [fork |-> ZeroFork, err |-> "no previous fork"]
              ELSE [fork |-> r.largest, err |-> "nil"]

\* What a call of a function of package state leaves alone.
stateFrame == <<healthVars, cacheVars, clientVars, lifeVars, opts, bootVars,
                schedVars, latchVars, outerVars, brokerVars, th, calls, overlap,
                forkEpochs, blobSchedule>>

\* A caller asks for the current fork at an epoch.
DoCurrentFork(epoch) ==
    /\ stateRes' = [fn |-> "CurrentFork", epoch |-> epoch,
                    ret |-> CurrentFork(forkEpochs, epoch)]
    /\ UNCHANGED stateFrame

\* A caller asks for the previous fork at an epoch.
DoPreviousFork(epoch) ==
    /\ stateRes' = [fn |-> "PreviousFork", epoch |-> epoch,
                    ret |-> PreviousFork(forkEpochs, epoch)]
    /\ UNCHANGED stateFrame

\* -- The fork queries on any fork list.
InitForks ==
    /\ NewHealth(3, 3) /\ hist = <<>>
    /\ InitNodeFields /\ InitUpstream /\ InitDefaultOptions /\ InitNoClient
    /\ forkEpochs \in ForkLists
    /\ blobSchedule = <<>>
    /\ stateRes = NoStateCall

NextForks ==
    \/ \E e \in Epochs : DoCurrentFork(e)
    \/ \E e \in Epochs : DoPreviousFork(e)

SpecForks == InitForks /\ [][NextForks]_vars

\* The entries of the list that are active at the epoch of the latest call.
ActiveAt(e) == {i \in DOMAIN forkEpochs : forkEpochs[i].epoch <= e}

\* C21: CurrentFork(e) returns a member of the forks active at e whose epoch
\* is the largest among them and which is the latest in canonical order of
\* those sharing that epoch; with no active fork it returns an error.
C21_CurrentFork ==
    stateRes.fn = "CurrentFork" =>
        LET A == ActiveAt(stateRes.epoch)
            got == stateRes.ret
        IN IF A = {} THEN got.err # "nil"
           ELSE /\ got.err = "nil"
                /\ \E i \in A : forkEpochs[i] = got.fork
                /\ \A j \in A :
                      /\ forkEpochs[j].epoch <= got.fork.epoch
                      /\ forkEpochs[j].epoch = got.fork.epoch
                            => IndexOf(forkEpochs[j].name) <= IndexOf(got.fork.name)

\* Several active forks share the largest epoch, listed canonically latest
\* first, a later fork is not active yet, and the latest of them came back.
C21_Witness ==
    /\ stateRes.fn = "CurrentFork"
    /\ stateRes.ret.err = "nil"
    /\ \E i, j \in ActiveAt(stateRes.epoch) :
          /\ i < j
          /\ forkEpochs[i] = stateRes.ret.fork
          /\ forkEpochs[j].epoch = forkEpochs[i].epoch
          /\ IndexOf(forkEpochs[j].name) < IndexOf(forkEpochs[i].name)
    /\ \E k \in DOMAIN forkEpochs : k \notin ActiveAt(stateRes.epoch)

\* C22: with more than one entry and two differently named forks active,
\* PreviousFork(e) returns without error the active fork of greatest epoch
\* whose name differs from the current fork's, also when that fork activates
\* at epoch 0; a single-fork list gives what CurrentFork gives.
C22_PreviousFork ==
    stateRes.fn = "PreviousFork" =>
        LET e == stateRes.epoch
            A == ActiveAt(e)
            got == stateRes.ret
            cur == CurrentFork(forkEpochs, e).fork
            others == {i \in A : forkEpochs[i].name # cur.name}
        IN /\ Len(forkEpochs) > 1 /\ others # {} =>
                /\ got.err = "nil"
                /\ \E i \in others : forkEpochs[i] = got.fork
                /\ \A j \in others : forkEpochs[j].epoch <= got.fork.epoch
           /\ Len(forkEpochs) = 1 => got = CurrentFork(forkEpochs, e)

----------------------------------------------------------------------------
(* Package state: the blob schedule of a Spec (state/blob_schedule.go) *)

\* Longest BlobSchedule.
MaxEntries == 3
\* Largest epoch of a blob schedule entry and of a query.
MaxBlobEpoch == 3
\* Largest MaxBlobsPerBlock of an entry.
MaxBlobs == 3

BlobScheduleEntry(e, m) == [epoch |-> e, maxBlobs |-> m]

\* The schedules of a BLOB_SCHEDULE configuration: one entry per epoch, in any
\* order.
BlobSchedules ==
    UNION {{bs \in [1..n -> [epoch : 0..MaxBlobEpoch, maxBlobs : 1..MaxBlobs]] :
               \A i, j \in 1..n : i # j => bs[i].epoch # bs[j].epoch} :
           n \in 0..MaxEntries}

\* The schedule as it was given.
Unsorted(s) == s

\* sort.Slice with the comparison of GetMaxBlobsPerBlock: descending epoch. The
\* epochs of a schedule are distinct, so no two entries compare equal.
RECURSIVE SortByEpochDesc(_)
SortByEpochDesc(s) ==
    IF s = <<>> THEN <<>>
    ELSE LET i == CHOOSE i \in DOMAIN s : \A j \in DOMAIN s : s[i].epoch >= s[j].epoch
         IN <<s[i]>> \o SortByEpochDesc(SubSeq(s, 1, i - 1) \o SubSeq(s, i + 1, Len(s)))

\* The first loop of GetMaxBlobsPerBlock: the first entry at or before the
\* epoch, or none.
RECURSIVE FirstApplicable(_, _)
FirstApplicable(sorted, epoch) ==
    IF sorted = <<>> THEN [found |-> FALSE, maxBlobs |-> 0]
    ELSE IF epoch >= Head(sorted).epoch
         THEN [found |-> TRUE, maxBlobs |-> Head(sorted).maxBlobs]
         ELSE FirstApplicable(Tail(sorted), epoch)

\* The second loop of GetMaxBlobsPerBlock: the smallest value, from minBlobs.
RECURSIVE MinBlobs(_, _)
MinBlobs(sorted, minBlobs) ==
    IF sorted = <<>> THEN minBlobs
    ELSE MinBlobs(Tail(sorted),
                  IF Head(sorted).maxBlobs < minBlobs
                  THEN Head(sorted).maxBlobs ELSE minBlobs)

\* BlobSchedule.GetMaxBlobsPerBlock
GetMaxBlobsPerBlock(bs, epoch) ==
    IF Len(bs) = 0 THEN 0
    ELSE LET sorted == SortByEpochDesc(bs)
             first == FirstApplicable(sorted, epoch)
         IN IF first.found THEN first.maxBlobs
            ELSE MinBlobs(sorted, sorted[1].maxBlobs)

\* A caller asks for the blob limit at an epoch.
DoGetMaxBlobsPerBlock(epoch) ==
    /\ stateRes' = [fn |-> "GetMaxBlobsPerBlock", epoch |-> epoch,
                    ret |-> GetMaxBlobsPerBlock(blobSchedule, epoch)]
    /\ UNCHANGED stateFrame

\* -- The blob limit queries on any schedule.
InitBlobs ==
    /\ NewHealth(3, 3) /\ hist = <<>>
    /\ InitNodeFields /\ InitUpstream /\ InitDefaultOptions /\ InitNoClient
    /\ forkEpochs = <<>>
    /\ blobSchedule \in BlobSchedules
    /\ stateRes = NoStateCall

NextBlobs == \E e \in 0..MaxBlobEpoch : DoGetMaxBlobsPerBlock(e)

SpecBlobs == InitBlobs /\ [][NextBlobs]_vars

\* The entries of the schedule at or before epoch e.
AppliesAt(e) == {i \in DOMAIN blobSchedule : blobSchedule[i].epoch <= e}

\* C23: GetMaxBlobsPerBlock(e) returns the value of the entry with the greatest
\* epoch at or before e; with no such entry the smallest value of the
\* schedule; and 0 for an empty schedule.
C23_MaxBlobsPerBlock ==
    stateRes.fn = "GetMaxBlobsPerBlock" =>
        LET A == AppliesAt(stateRes.epoch)
            got == stateRes.ret
        IN IF blobSchedule = <<>> THEN got = 0
           ELSE IF A = {}
           THEN /\ \E i \in DOMAIN blobSchedule : blobSchedule[i].maxBlobs = got
                /\ \A j \in DOMAIN blobSchedule : got <= blobSchedule[j].maxBlobs
           ELSE \E i \in A :
                   /\ blobSchedule[i].maxBlobs = got
                   /\ \A j \in A : blobSchedule[j].epoch <= blobSchedule[i].epoch

\* A schedule given out of epoch order, queried between two of its entries:
\* the value of the latest entry before the epoch came back, which is neither
\* the largest nor the value of the first entry given.
C23_Witness ==
    /\ stateRes.fn = "GetMaxBlobsPerBlock"
    /\ Len(blobSchedule) = 3
    /\ \E i, j, k \in DOMAIN blobSchedule :
          /\ i > 1 /\ j < k
          /\ blobSchedule[j].epoch > stateRes.epoch
          /\ blobSchedule[i].epoch <= stateRes.epoch
          /\ blobSchedule[k].epoch < blobSchedule[i].epoch
          /\ blobSchedule[i].maxBlobs = stateRes.ret
          /\ blobSchedule[i].maxBlobs < blobSchedule[k].maxBlobs
          /\ blobSchedule[i].maxBlobs # blobSchedule[1].maxBlobs

----------------------------------------------------------------------------
(* C1 *)

\* Length of the run of equal outcomes that ends at position i of h.
RECURSIVE RunLen(_, _)
RunLen(h, i) ==
    IF i > 1 /\ h[i - 1] = h[i] THEN 1 + RunLen(h, i - 1) ELSE 1

\* Position i completes a streak that reaches the threshold of its kind.
Reaches(h, i) ==
    \/ h[i] = "S" /\ RunLen(h, i) >= successThreshold
    \/ h[i] = "F" /\ RunLen(h, i) >= failThreshold

\* What the hysteresis rule gives for history h: the kind of the latest
\* threshold-reaching streak decides, and without any such streak the initial
\* value false stands.
HysteresisOf(h) ==
    LET hits == {i \in 1..Len(h) : Reaches(h, i)}
    IN  IF hits = {} THEN FALSE
        ELSE LET last == CHOOSE i \in hits : \A j \in hits : j <= i
             IN  h[last] = "S"

\* C1: Healthy() is true iff the latest streak that reached its threshold is a
\* streak of at least successThreshold successes (since the last RecordFail),
\* and false iff it is a streak of at least failThreshold failures (or no
\* streak has reached a threshold yet); shorter streaks change nothing.
C1_Hysteresis == Healthy = HysteresisOf(hist)

\* The scenario of the spec: thresholds 3/2, S S S F F S S keeps false and
\* one more S gives true.
C1_Witness ==
    /\ successThreshold = 3
    /\ failThreshold = 2
    /\ hist = <<"S", "S", "S", "F", "F", "S", "S", "S">>
    /\ Healthy

----------------------------------------------------------------------------
(* C2 *)

FinalityEvents == emitted["finality_checkpoint_updated"]

\* The FetchFinality calls that have returned a value.
FinalityReturned == {p \in Threads : th[p].op = "finality" /\ th[p].res = "ok"}

\* C2: a FetchFinality call that returned a value has emitted
\* finality_checkpoint_updated iff its stateID is "head" and the fetched
\* finality differs from the cached one it compared with (an empty cache
\* differs); it has written the cache iff its stateID is "head"; and, when
\* head calls follow one another and the upstream has not changed, the node
\* has emitted the event exactly once in total after the first of them.
C2_FinalityEmit ==
    /\ \A p \in FinalityReturned :
         /\ th[p].pub = (th[p].sid = "head" /\ th[p].fin # th[p].seen)
         /\ th[p].wrote = (th[p].sid = "head")
    /\ (~overlap /\ upChanges = 0 /\ \A p \in Threads : ~InHeadFinality(p))
         => FinalityEvents = (IF finality = NilFinality THEN 0 ELSE 1)

\* Two FetchFinality("head") calls, one after the other, with no upstream
\* change: both returned a value and one event was emitted.
C2_Witness ==
    /\ \A p \in Callers : p \in FinalityReturned /\ th[p].sid = "head"
    /\ upChanges = 0 /\ ~overlap
    /\ th["caller1"].pub /\ ~th["caller2"].pub
    /\ FinalityEvents = 1

----------------------------------------------------------------------------
(* C3 *)

\* The slot_empty events emitted for the i-th probe with its slot.
EmptySlotEventsOf(i) ==
    {j \in DOMAIN emptySlots :
        emptySlots[j].probe = i /\ emptySlots[j].slot = probes[i].slot}

\* C3: every probe sent on a slot change (detection enabled, not syncing)
\* asks for the block of the slot before the announced one, and every probe
\* the upstream answered with HTTP 404 has exactly one slot_empty event
\* carrying the announced slot.
C3_EmptySlotOn404 ==
    \A i \in DOMAIN probes :
       /\ probes[i].slot > 0 => probes[i].id = ToString(probes[i].slot - 1)
       /\ (probes[i].rsp.kind = "apiError" /\ probes[i].rsp.status = 404)
            => Cardinality(EmptySlotEventsOf(i)) = 1

----------------------------------------------------------------------------
(* C4 *)

\* BeaconSubscription is disabled or has no topics.
SubscriptionOff ==
    \/ ~opts.BeaconSubscription.Enabled
    \/ opts.BeaconSubscription.Topics = <<>>

\* C4: while the subscription is disabled or its topic list is empty, the
\* ensurer has never called subscribeToBeaconEvents, no provider.Events call
\* has been made and no stream is open.
C4_NoSubscribeWhileOff ==
    SubscriptionOff => (subscribes = 0 /\ eventsCalls = 0 /\ streams = <<>>)

\* The ensurer has ticked twice with topics configured, a client that could
\* open streams, and the subscription disabled.
C4_Witness ==
    /\ ~opts.BeaconSubscription.Enabled
    /\ opts.BeaconSubscription.Topics # <<>>
    /\ Implements("EventsProvider")
    /\ ticks = 2
    /\ subscribes = 0

----------------------------------------------------------------------------
(* C5 *)

\* The lines the listener of handler h has logged.
SubscriberLogs(h) ==
    {j \in DOMAIN errlog :
        /\ errlog[j].src = "subscriber"
        /\ errlog[j].err = h
        /\ errlog[j].topic = handlers[h].topic}

\* C5: every registered handler has been invoked exactly once for each event
\* emitted on its topic since it was registered, whatever the other handlers
\* of the topic returned; each error a handler returned is logged once, with
\* the handler's topic; and no handler error shows up anywhere else: every
\* other logged line is an ingress error of its own cause.
C5_FanoutIsolation ==
    /\ \A h \in DOMAIN handlers :
         /\ invoked[h] = emitted[handlers[h].topic] - handlers[h].since
         /\ Cardinality(SubscriberLogs(h)) = (IF handlers[h].fails THEN invoked[h] ELSE 0)
    /\ \A j \in DOMAIN errlog :
         \/ /\ errlog[j].src = "subscriber"
            /\ errlog[j].err \in DOMAIN handlers
            /\ j \in SubscriberLogs(errlog[j].err)
         \/ /\ errlog[j].src = "ingress"
            /\ errlog[j].cause \in {"invalid", "unknown"}

\* Three OnBlock handlers, the second of which returns an error, and one
\* block event: each handler was invoked once and the one error was logged
\* with the topic.
C5_Witness ==
    /\ Len(handlers) = 3
    /\ \A h \in 1..3 : handlers[h].topic = "block" /\ handlers[h].since = 0
    /\ ~handlers[1].fails /\ handlers[2].fails /\ ~handlers[3].fails
    /\ emitted["block"] = 1
    /\ invoked = <<1, 1, 1>>
    /\ errlog = <<[src |-> "subscriber", topic |-> "block", err |-> 2,
                   cause |-> "handler"]>>

----------------------------------------------------------------------------
(* C6 *)

\* The positions of the trace where raw_event was emitted for event id.
RawOf(id) == {j \in DOMAIN trace : trace[j].kind = "raw" /\ trace[j].id = id}

\* C6: every upstream event received has had raw_event emitted for it exactly
\* once, whatever its topic and payload; every listener of raw_event has been
\* run for each raw_event emitted since its registration; and a typed event
\* stands in the trace only after the raw_event of the same upstream event.
C6_RawBeforeTyped ==
    /\ emitted[RawEvent] = nextEvent
    /\ \A id \in 1..nextEvent : Cardinality(RawOf(id)) = 1
    /\ \A h \in DOMAIN handlers :
          handlers[h].topic = RawEvent
             => invoked[h] = emitted[RawEvent] - handlers[h].since
    /\ \A j \in DOMAIN trace :
          trace[j].kind = "typed" => \E i \in RawOf(trace[j].id) : i < j

\* A block event went through: raw_event first, delivered to a listener of
\* raw_event, then the typed block event.
C6_Witness ==
    /\ Len(trace) = 2
    /\ trace[1].kind = "raw" /\ trace[2].kind = "typed"
    /\ trace[1].id = trace[2].id /\ trace[2].topic = "block"
    /\ \E h \in DOMAIN handlers : handlers[h].topic = RawEvent /\ invoked[h] = 1

----------------------------------------------------------------------------
(* C7 *)

\* Thread p's fetcher call ends in this step without a response in hand.
CallFails(p) ==
    /\ th[p].pc = "call"
    /\ th'[p].pc \notin {"call", "got", "panic"}

\* The capability the call of thread p needs is missing.
Unsupported(p) ==
    /\ th[p].pc = "call"
    /\ th[p].op # "peers"
    /\ ~Implements(ProviderOf(th[p].op))

\* C7: when the upstream call of a caching fetcher fails, or the client lacks
\* the capability, the fetcher returns the error, every cache slot keeps its
\* value and no event is emitted.
C7_ErrorKeepsCache ==
    [][\A p \in Threads :
          /\ CallFails(p) =>
               /\ th'[p].res = "err"
               /\ UNCHANGED cacheVars
               /\ UNCHANGED emitted
          /\ (Unsupported(p) /\ th'[p] # th[p]) => CallFails(p)]_vars

\* A fetcher has returned an error while its cache slot held a value.
C7_Witness ==
    \E p \in Threads :
       /\ th[p].pc = "done" /\ th[p].res = "err"
       /\ ~th[p].wrote /\ ~th[p].pub
       /\ \/ th[p].op = "spec" /\ spec # 0
          \/ th[p].op = "finality" /\ th[p].sid = "head" /\ finality # NilFinality

----------------------------------------------------------------------------
(* C8 *)

\* Thread p is inside a caching fetcher.
InFetch(p) == th[p].pc \in {"call", "got", "cmp", "pub"}

\* C8: a fetcher call whose context has been cancelled by Stop takes no step
\* that writes its cache slot or emits the slot's derived event.
C8_CancelledFetchNoWrite ==
    [][\A p \in Threads :
          (InFetch(p) /\ th[p].ctx \in cancelled) =>
              /\ th'[p].wrote = th[p].wrote
              /\ th'[p].pub = th[p].pub]_vars

----------------------------------------------------------------------------
(* C9 *)

\* C9: once a Stop that was called after a Start had returned nil has itself
\* returned, no further run of a periodic job is started.
C9_StopStopsScheduler ==
    [][(\E q \in Stoppers : th[q].pc = "t_done" /\ th[q].after = 1)
          => jobRuns' = jobRuns]_vars

----------------------------------------------------------------------------
(* C10 *)

\* Thread p is between Lock and Unlock of n.lifecycleMu.
InCritical(p) == th[p].pc \in {"s_ctx", "s_cancel", "s_unlock", "t_cancel", "t_unlock"}

\* Some Start has completed its store of n.ctx and n.cancel.
Stored == \E p \in Starters : th[p].pc \notin {"idle", "s_lock", "s_ctx", "s_cancel"}

\* The Stop calls that have passed `if n.cancel != nil { n.cancel() }`.
StopsRead == {q \in Stoppers : th[q].pc \in {"t_unlock", "t_done"}}

\* C10: the store in Start and the read-and-invoke in Stop exclude one another
\* (at most one thread is between Lock and Unlock, and outside the lock n.ctx
\* and n.cancel belong to the same Start); Stop reads a nil cancel exactly
\* when no Start has stored yet, and then returns nil having cancelled
\* nothing; otherwise the context whose cancel it read is cancelled when Stop
\* returns; and nothing but these Stops cancels a context.
C10_LifecycleMutex ==
    /\ \A p, q \in Threads : (InCritical(p) /\ InCritical(q)) => p = q
    /\ \A p \in Threads : InCritical(p) <=> lifecycleMu = p
    /\ lifecycleMu = Free => (nctx = ncancel /\ (ncancel # 0 <=> Stored))
    /\ \A q \in Stoppers :
         /\ th[q].pc = "t_unlock" => th[q].saw = ncancel
         /\ th[q].pc = "t_done" =>
              /\ th[q].res = "ok"
              /\ th[q].saw # 0 => th[q].saw \in cancelled
              /\ nextCtx = 0 => th[q].saw = 0
    /\ cancelled = {th[q].saw : q \in StopsRead} \ {0}

\* One Stop returned before any Start had stored, having cancelled nothing;
\* the other read the cancel stored by the second Start and cancelled its
\* context, which ended that Start in ensureClients.
C10_Witness ==
    /\ th["stopper1"].pc = "t_done" /\ th["stopper1"].saw = 0
    /\ th["stopper2"].pc = "t_done" /\ th["stopper2"].saw = 2
    /\ cancelled = {2}
    /\ \E p \in Starters :
         /\ th[p].ctx = 2 /\ th[p].fails > 0
         /\ th[p].pc = "s_done" /\ th[p].res = "err"

----------------------------------------------------------------------------
(* C11 *)

\* C11: first_time_healthy is published exactly once, by the first successful
\* health check: the publications made and the one still on its way number one
\* once a successful check has passed the latch and none before; the latch is
\* set exactly when a successful check has published health_check_suceeded;
\* and only successful checks publish that.
C11_FirstTimeHealthyOnce ==
    /\ emitted["first_time_healthy"] + pendingFTH =
          (IF hasEmittedFirstTimeHealthy THEN 1 ELSE 0)
    /\ hasEmittedFirstTimeHealthy <=> emitted["health_check_suceeded"] > 0
    /\ emitted["health_check_suceeded"] <= successTotal
    /\ successTotal = 0 => emitted["first_time_healthy"] = 0

\* Two overlapping health checks both succeeded and both have published
\* health_check_suceeded; first_time_healthy went out once.
C11_Witness ==
    /\ successTotal = 2
    /\ emitted["health_check_suceeded"] = 2
    /\ th["cron1"].op = "health" /\ th["cron1"].pc = "done"
    /\ th["cron2"].op = "health" /\ th["cron2"].pc = "done"
    /\ emitted["first_time_healthy"] = 1 /\ pendingFTH = 0

----------------------------------------------------------------------------
(* C12 *)

\* The cache slot behind getter g has not been populated.
Unpopulated(g) ==
    CASE g = "Spec" -> spec = 0
      [] g = "SyncState" -> syncstate = 0
      [] g = "Genesis" -> genesis = 0
      [] g = "NodeVersion" -> nodeVersion = 0
      [] g = "Finality" -> finality = NilFinality

\* The value in the cache slot behind getter g.
Cached(g) ==
    CASE g = "Spec" -> Got(spec, NilFinality, "nil")
      [] g = "SyncState" -> Got(syncstate, NilFinality, "nil")
      [] g = "Genesis" -> Got(genesis, NilFinality, "nil")
      [] g = "NodeVersion" -> Got(nodeVersion, NilFinality, "nil")
      [] g = "Finality" -> Got(0, finality, "nil")

\* C12: every call of Spec, SyncState, NodeVersion or Finality returns an
\* error while its cache slot is unpopulated, and the cached value with a nil
\* error once it is populated.
C12_GettersUnavailable ==
    [][\A p \in Callers :
          (calls' = calls + 1 /\ th'[p].op = "get" /\ th'[p].nth = calls'
              /\ th'[p].sid # "Genesis") =>
            IF Unpopulated(th'[p].sid)
            THEN th'[p].res = "err"
            ELSE /\ th'[p].res = "ok"
                 /\ th'[p].rsp = Cached(th'[p].sid).val
                 /\ th'[p].fin = Cached(th'[p].sid).fin]_vars

----------------------------------------------------------------------------
(* C13 *)

\* The fetchers that publish on every success.
Unconditional == {"spec", "sync", "version", "peers"}

\* The cache slot fetcher f writes.
SlotOf(f) ==
    CASE f = "spec" -> spec
      [] f = "genesis" -> genesis
      [] f = "sync" -> syncstate
      [] f = "version" -> nodeVersion
      [] f = "peers" -> peers

\* C13: a call of FetchSpec, FetchSyncStatus, FetchNodeVersion or FetchPeers
\* that returns successfully has written the fetched value into its cache slot
\* and publishes its event once, as it returns and in no earlier step,
\* whatever the slot held before;
\* a FetchGenesis that returns successfully has written its slot and
\* published nothing.
C13_UnconditionalPublication ==
    [][\A p \in Callers :
          LET f == th[p].op IN
          /\ (f \in Unconditional \cup {"genesis"} /\ ~th[p].wrote /\ th'[p].wrote)
                => SlotOf(f)' = th[p].rsp
          /\ (f \in Unconditional /\ InFetch(p) /\ th'[p].pc = "done"
                 /\ th'[p].res = "ok")
                => /\ th[p].wrote /\ ~th[p].pub /\ th'[p].pub
                   /\ emitted' = [emitted EXCEPT ![TopicOf(f)] = @ + 1]
          /\ (f \in Unconditional /\ InFetch(p) /\ th'[p] # th[p]
                 /\ th'[p].pc # "done")
                => (~th'[p].pub /\ emitted' = emitted)
          /\ (f = "genesis" /\ InFetch(p) /\ th'[p] # th[p])
                => /\ emitted' = emitted /\ ~th'[p].pub
                   /\ (th'[p].pc = "done" /\ th'[p].res = "ok") => th'[p].wrote]_vars

\* FetchSpec was called twice and fetched the same value both times:
\* spec_updated was published twice.
C13_Witness ==
    /\ \A p \in Callers :
          /\ th[p].op = "spec" /\ th[p].pc = "done" /\ th[p].res = "ok"
          /\ th[p].rsp = 1 /\ th[p].wrote /\ th[p].pub
    /\ spec = 1
    /\ emitted["spec_updated"] = 2

----------------------------------------------------------------------------
(* C14 *)

\* The number of outcomes k among the completed calls.
Completed(k) == Cardinality({i \in DOMAIN hist : hist[i] = k})

\* C14: whenever no writer is inside the Health, SuccessTotal and FailedTotal
\* are the numbers of completed RecordSuccess and RecordFail calls and their
\* sum the number of recorded outcomes; a reader holding the lock has read
\* exactly those numbers; and no step lowers a counter.
C14_CountersExact ==
    /\ [](/\ (\A q \in healthMu : th[q].op \in HealthReaders) =>
               /\ SuccessTotal = Completed("S")
               /\ FailedTotal = Completed("F")
               /\ SuccessTotal + FailedTotal = Len(hist)
          /\ \A p \in Threads :
               /\ (th[p].op = "SuccessTotal" /\ th[p].pc = "m_unlock")
                     => th[p].rsp = Completed("S")
               /\ (th[p].op = "FailedTotal" /\ th[p].pc = "m_unlock")
                     => th[p].rsp = Completed("F"))
    /\ [][SuccessTotal' >= SuccessTotal /\ FailedTotal' >= FailedTotal]_vars

\* One failure and two successes are complete, a reader holds 2 as the
\* SuccessTotal and a writer waits for the mutex.
C14_Witness ==
    /\ Completed("S") = 2 /\ Completed("F") = 1
    /\ SuccessTotal = 2 /\ FailedTotal = 1
    /\ \E p \in Threads :
          th[p].op = "SuccessTotal" /\ th[p].pc = "m_unlock" /\ th[p].rsp = 2
    /\ \E q \in Threads : th[q].op \in HealthWriters /\ th[q].pc = "m_lock"

----------------------------------------------------------------------------
(* C15 *)

\* Thread p is between Lock / RLock and Unlock / RUnlock of Status.mu.
InStatus(p) == th[p].pc \in {"u_in", "u_unlock"}

\* C15: a reader's SyncState is nil only while nothing has been written, and
\* otherwise a value that was passed to UpdateSyncState; Syncing is the
\* is_syncing flag of such a value (false for nil); and sync_state and
\* network_id are touched only by a thread holding the Status lock, a writer
\* holding it alone.
C15_StatusConsistent ==
    /\ syncstate = 0 <=> syncWrites = {}
    /\ syncstate # 0 => syncstate \in syncWrites
    /\ \A p \in Threads :
         /\ (th[p].op = "SyncState" /\ th[p].pc = "u_unlock") =>
               \/ th[p].rsp = 0 /\ syncWrites = {}
               \/ th[p].rsp \in syncWrites
         /\ (th[p].op = "SyncState" /\ th[p].pc = "done") =>
               th[p].rsp \in syncWrites \cup {0}
         /\ (th[p].op = "Syncing" /\ th[p].pc \in {"u_unlock", "done"}) =>
               \/ th[p].rsp = 0 /\ th[p].pc = "u_unlock" /\ syncWrites = {}
               \/ th[p].rsp = 0 /\ th[p].pc = "done"
               \/ \E v \in syncWrites : th[p].rsp = (IF IsSyncing(v) THEN 1 ELSE 0)
         /\ InStatus(p) <=> p \in statMu
         /\ (InStatus(p) /\ th[p].op \in StatusWriters) => statMu = {p}

\* Both values have been written; one reader holds the second value and
\* another the matching flag while a writer waits for the lock.
C15_Witness ==
    /\ syncWrites = {1, 2} /\ syncstate = 2
    /\ \E p, q, w \in Threads :
          /\ th[p].op = "SyncState" /\ th[p].pc = "u_unlock" /\ th[p].rsp = 2
          /\ th[q].op = "Syncing" /\ th[q].pc = "u_unlock" /\ th[q].rsp = 1
          /\ th[w].op = "UpdateSyncState" /\ th[w].pc = "u_lock"

----------------------------------------------------------------------------
(* C16 *)

\* The listeners in o ran in the order in which they were registered.
RegistrationOrder(o) == \A i, j \in DOMAIN o : i < j => o[i] < o[j]

\* Exactly the listeners of topic t ran, each once, and no other listener.
DeliveredTo(t) ==
    /\ ran'.topic = t
    /\ {ran'.order[i] : i \in DOMAIN ran'.order} = Fanout(t)
    /\ \A h \in DOMAIN handlers :
         invoked'[h] = invoked[h] + (IF handlers[h].topic = t THEN 1 ELSE 0)

\* C16: every Emit on a topic runs exactly the handlers registered for that
\* topic, in the order in which they were registered, and the emitter goes
\* on only when all of them have returned.
C16_BrokerDelivery ==
    [][\A t \in Topics :
          emitted'[t] # emitted[t] =>
            (DeliveredTo(t) /\ RegistrationOrder(ran'.order))]_vars

----------------------------------------------------------------------------
(* C17 *)

\* The FetchSpec or FetchGenesis of the Start run by thread p has failed.
BootstrapFailed(p) ==
    /\ th[p].op \in {"spec", "genesis"}
    /\ th[p].res = "err"
    /\ th[p].pc \notin {"call", "got", "pub"}

\* C17: a Start whose FetchSpec or FetchGenesis failed does nothing but
\* return the error: no wall clock is built, no reaction registered, the
\* subscription ensurer is not spawned, ready is neither set nor published,
\* and no scheduler is started.
C17_BootstrapErrorsFatal ==
    \A p \in Starters :
       BootstrapFailed(p) =>
          /\ th[p].pc \in {"s_spec", "s_genesis", "s_done"}
          /\ wallclock = NoWallclock
          /\ hooks = {} /\ ensurers = {}
          /\ ~ready /\ readyPending = 0 /\ emitted["ready"] = 0
          /\ sched = {} /\ jobRuns = 0

\* Start has returned the error of FetchGenesis after FetchSpec had filled
\* the cache and published spec_updated.
C17_Witness ==
    /\ th["starter1"].pc = "s_done" /\ th["starter1"].res = "err"
    /\ th["starter1"].op = "genesis"
    /\ spec # 0 /\ genesis = 0
    /\ emitted["spec_updated"] = 1
    /\ wallclock = NoWallclock

----------------------------------------------------------------------------
(* C18 *)

\* C18: while the clock is before the cached genesis time, no upstream
\* subscription is opened: no Events call has been made and no stream is open.
C18_PreGenesisGate ==
    beforeGenesis => (eventsCalls = 0 /\ streams = <<>>)

----------------------------------------------------------------------------
(* C19 *)

\* The positions a stream can have in `streams`.
StreamIds == 1..(2 * MaxTicks)

\* The ensurer of context c has subscribed every topic and returned nil.
Active(c) == [ctx |-> c, res |-> "nil"] \in ensurerRet

\* The i-th stream was opened by a subscription that succeeded, has closed,
\* and the node is still running.
Disconnected(i) ==
    /\ i \in DOMAIN streams
    /\ ~streams[i].open
    /\ Active(streams[i].ctx)
    /\ streams[i].ctx \notin cancelled

\* A stream for the topic of the i-th stream has been opened after it.
Resubscribed(i) ==
    /\ i \in DOMAIN streams
    /\ \E j \in DOMAIN streams :
          j > i /\ streams[j].topic = streams[i].topic /\ streams[j].open

\* C19: when a stream that a successful subscription opened closes while the
\* node is running, a new stream for its topic is eventually opened.
C19_Reconnection ==
    \A i \in StreamIds : Disconnected(i) ~> Resubscribed(i)

----------------------------------------------------------------------------
(* C20 *)

\* The ten upstream topics the dispatch is stated for.
DispatchedTopics ==
    {"attestation", "single_attestation", "block", "block_gossip", "chain_reorg",
     "finalized_checkpoint", "head", "voluntary_exit", "contribution_and_proof",
     "blob_sidecar"}

\* The lines the ingress has logged for handleEvent errors.
IngressErrors(log) == {j \in DOMAIN log : log[j].src = "ingress"}

\* C20: the dispatch of an upstream event of one of the ten topics whose
\* payload has the topic's type emits exactly one typed event on the broker
\* topic of the same name, for that upstream event, and returns no error.
C20_TypedDispatch ==
    [][\A e \in inflight :
          (e \notin inflight' /\ e.valid /\ e.topic \in DispatchedTopics) =>
             /\ emitted'[e.topic] = emitted[e.topic] + 1
             /\ trace' = Append(trace, [kind |-> "typed", id |-> e.id,
                                        topic |-> e.topic])
             /\ IngressErrors(errlog') = IngressErrors(errlog)]_vars

----------------------------------------------------------------------------
(* C24 *)

\* The head finality after the chain finalized epoch 101 with root 0xBB.
Finalized101 == [BaseFinality EXCEPT !.finalized = CP(101, "0xBB")]

\* Caller p has returned from a successful FetchFinality("head") that was
\* answered with v.
HeadFetched(p, v) ==
    /\ th[p].pc = "done" /\ th[p].op = "finality" /\ th[p].sid = "head"
    /\ th[p].res = "ok" /\ th[p].fin = v

\* C24: of two successive FetchFinality("head") calls on an empty finality
\* cache, answered with finalized (100, 0xAA) and then (101, 0xBB), the first
\* only fills the cache and emits nothing, and after the second exactly one
\* finality_checkpoint_updated event has been emitted.
C24_FinalityScenario ==
    \A p \in Callers :
        /\ (calls = 1 /\ HeadFetched(p, BaseFinality)) =>
              /\ finality = BaseFinality
              /\ emitted["finality_checkpoint_updated"] = 0
        /\ (/\ calls = 2 /\ ~overlap
            /\ \A q \in Callers : th[q].pc \in {"idle", "done"}
            /\ HeadFetched(p, Finalized101) /\ th[p].seen = BaseFinality) =>
              /\ finality = Finalized101
              /\ emitted["finality_checkpoint_updated"] = 1

----------------------------------------------------------------------------
(* C25 *)

\* C25: at the moment first_time_healthy is emitted Healthy() is true, which
\* it is once the success threshold of the health tracker has been reached.
C25_HealthyAtFirstTimeHealthy ==
    [][emitted'["first_time_healthy"] # emitted["first_time_healthy"] =>
          healthy']_vars

----------------------------------------------------------------------------
(* C26 *)

\* NewStatus: network_id 0, a nil sync state, and a Health built with the
\* thresholds, nothing recorded.
NewStatusState ==
    /\ networkID = 0 /\ syncstate = 0 /\ syncWrites = {}
    /\ successThreshold = 3 /\ failThreshold = 3
    /\ ~healthy /\ successes = 0 /\ failures = 0

\* While a Syncing call still holds the read lock, what it is about to return
\* is false if no sync state has been written and otherwise the is_syncing
\* flag of the value written last (the value 2 is the syncing state).
SyncingAnswer ==
    \A p \in Threads :
        (th[p].op = "Syncing" /\ th[p].pc = "u_unlock") =>
            /\ syncWrites = {} => th[p].rsp = 0
            /\ syncWrites # {} => th[p].rsp = (IF syncstate = 2 THEN 1 ELSE 0)

\* C26: Syncing() returns false while the sync state is nil and otherwise the
\* is_syncing flag of the most recently written sync state; a new Status has
\* network_id 0, a nil sync state and a Health.
C26_SyncingFlag == NewStatusState /\ []SyncingAnswer

\* Syncing is about to return false after a syncing state and then a
\* not-syncing state were written.
C26_Witness ==
    /\ syncWrites = {1, 2} /\ syncstate = 1
    /\ \E p \in Threads :
          th[p].op = "Syncing" /\ th[p].pc = "u_unlock" /\ th[p].rsp = 0

----------------------------------------------------------------------------
(* C27 *)

\* C27: after any sequence of RecordSuccess / RecordFail at least one of the
\* consecutive-failure and the consecutive-success counter is zero, and
\* before anything was recorded Healthy() is false.
C27_StreaksExclusive ==
    /\ failures = 0 \/ successes = 0
    /\ hist = <<>> => ~Healthy

\* A failure recorded right after two successes: the success streak is gone.
C27_Witness ==
    /\ Len(hist) >= 3
    /\ hist[Len(hist)] = "F"
    /\ hist[Len(hist) - 1] = "S" /\ hist[Len(hist) - 2] = "S"
    /\ failures = 1 /\ successes = 0

----------------------------------------------------------------------------
(* C28 *)

\* Thread p is in, or has returned from, a FetchFinality("head") that the
\* upstream has answered and that has run its change test.
HeadCompared(p) ==
    /\ th[p].op = "finality" /\ th[p].sid = "head"
    /\ th[p].pc \in {"cmp", "pub", "done"}
    /\ th[p].res # "err"

\* C28: each change of the upstream head finality causes at most one
\* finality_checkpoint_updated event: two FetchFinality("head") calls that
\* fetched the same new value for the same cached value never both emit, and
\* no more events are emitted than the upstream has served values.
C28_OneEventPerChange ==
    /\ \A p, q \in Callers :
          (/\ p # q
           /\ HeadCompared(p) /\ HeadCompared(q)
           /\ th[p].fin = th[q].fin
           /\ th[p].seen = th[q].seen) => ~(th[p].pub /\ th[q].pub)
    /\ emitted["finality_checkpoint_updated"] <= upChanges + 1

----------------------------------------------------------------------------
(* C29 *)

\* The mutex a fetcher holds around the write of its cache slot, "none" for a
\* write made with no lock held: FetchSpec, FetchGenesis and FetchNodeVersion
\* lock their slot's mutex, FetchSyncStatus writes through
\* Status.UpdateSyncState, FetchPeers and FetchFinality assign directly.
WriteLock(f) ==
    CASE f = "spec" -> "specMu"
      [] f = "genesis" -> "genesisMu"
      [] f = "version" -> "nodeVersionMu"
      [] f = "sync" -> "stat.mu"
      [] f = "peers" -> "none"
      [] f = "finality" -> "none"

\* The mutex a getter holds while it reads its slot, "none" for a read made
\* with no lock held.
ReadLock(g) ==
    CASE g = "Spec" -> "specMu"
      [] g = "Genesis" -> "genesisMu"
      [] g = "NodeVersion" -> "nodeVersionMu"
      [] g = "SyncState" -> "stat.mu"
      [] g = "Finality" -> "none"

\* C29: every write and every read of a cache slot is made while holding the
\* slot's own lock: a fetcher that has written its slot held a lock for the
\* write, and a getter that has returned held a lock for the read.
C29_SlotsLocked ==
    \A p \in Callers :
        /\ (th[p].op \in Fetchers /\ th[p].wrote) => WriteLock(th[p].op) # "none"
        /\ (th[p].op = "get" /\ th[p].pc = "done") => ReadLock(th[p].sid) # "none"

----------------------------------------------------------------------------
(* C30 *)

\* Subscriptions are enabled, topics are configured and a client is present.
SubscriptionsWanted ==
    /\ opts.BeaconSubscription.Enabled
    /\ opts.BeaconSubscription.Topics # <<>>
    /\ ~client.isNil

\* The ensurer of context c has returned.
EnsurerReturned(c) == c \in {r.ctx : r \in ensurerRet}

\* The "Failed to subscribe to beacon" lines logged: one per attempt that did
\* not end the ensurer.
FailedSubscribes ==
    subscribes - Cardinality({r \in ensurerRet : r.res = "nil"})

----------------------------------------------------------------------------
(* C39 *)

\* C39: with at least one active fork, CurrentFork(e) returns the last element
\* of Active(e) in canonical fork order, also when a canonically later fork
\* activates at a smaller epoch than a canonically earlier one.
C39_CanonicallyLatest ==
    (stateRes.fn = "CurrentFork" /\ ActiveAt(stateRes.epoch) # {}) =>
        /\ stateRes.ret.err = "nil"
        /\ \E i \in ActiveAt(stateRes.epoch) :
              /\ forkEpochs[i] = stateRes.ret.fork
              /\ \A j \in ActiveAt(stateRes.epoch) :
                    IndexOf(forkEpochs[j].name) <= IndexOf(forkEpochs[i].name)

----------------------------------------------------------------------------
(* C40 *)

\* C40: every probe the slot reaction sends is for the slot before the one
\* the wall clock announced, so never for a slot above it: for slot 0 there is
\* no probe, and for slot s > 0 the block id is the decimal of s - 1.
C40_ProbeBelowSlot ==
    \A i \in DOMAIN probes :
        /\ probes[i].slot > 0
        /\ probes[i].id = ToString(probes[i].slot - 1)

----------------------------------------------------------------------------
(* C37 *)

\* C37: what FetchBlock handed to the slot reaction for each probe: a nil
\* block and a nil error for an upstream 404, a nil block and the "syncing"
\* error for a 503, a nil block and the upstream's error as it came for every
\* other failure, and the block with a nil error on success.
C37_BlockErrorTranslation ==
    \A i \in DOMAIN probes :
        LET r == probes[i].rsp
            got == probes[i].got
        IN /\ r.kind = "block" => (got.block /\ got.err = NoError)
           /\ (r.kind = "apiError" /\ r.status = 404) =>
                 (~got.block /\ got.err = NoError)
           /\ (r.kind = "apiError" /\ r.status = 503) =>
                 (~got.block /\ got.err = <<"beacon", "node", "is", "syncing">>)
           /\ (r.kind = "apiError" /\ r.status \notin {404, 503}) =>
                 (~got.block /\ got.err = ApiErrorText(r.status))
           /\ r.kind = "error" => (~got.block /\ got.err = r.text)

\* One probe was answered with an API 404 and another with an API 503.
C37_Witness ==
    \E i, j \in DOMAIN probes :
        /\ probes[i].rsp = [kind |-> "apiError", status |-> 404]
        /\ probes[j].rsp = [kind |-> "apiError", status |-> 503]
        /\ probes[j].got.err # NoError

----------------------------------------------------------------------------
(* C38 *)

\* C38: in ensureClients the wait after the k-th failure is min(5 k, 300)
\* seconds; the loop is left towards the rest of Start only with a client that
\* has the sync-state capability installed together with the REST client, and
\* with the context's error only when the context is cancelled.
C38_BootstrapRetry ==
    [][\A p \in Starters :
          /\ th'[p].fails # th[p].fails =>
                LET k == th'[p].fails IN
                /\ k = th[p].fails + 1
                /\ th'[p].slept = (IF 5 * k < 300 THEN 5 * k ELSE 300)
                /\ th'[p].pc = "s_clients"
          /\ (th[p].pc = "s_clients" /\ th'[p].pc = "s_init") =>
                /\ ~client.isNil /\ "NodeSyncingProvider" \in client.provides
                /\ api
          /\ (th[p].pc = "s_clients" /\ th'[p].pc = "s_done") =>
                /\ th'[p].res = "err"
                /\ th[p].ctx \in cancelled
          /\ (th[p].pc = "s_clients" /\ th'[p].pc \notin {"s_init", "s_done"}) =>
                th'[p].pc = "s_clients"]_vars

\* The 61st failure in a row: the wait is clamped to 300 seconds.
C38_Witness ==
    \E p \in Starters :
        th[p].pc = "s_clients" /\ th[p].fails = 61 /\ th[p].slept = 300

----------------------------------------------------------------------------
(* C31 *)

\* The i-th stream is open and its context is not cancelled: the upstream
\* delivers events on it.
Delivering(i) == streams[i].open /\ streams[i].ctx \notin cancelled

\* C31: at any time at most one upstream stream delivers per topic, also after
\* a subscription that failed on a later topic is retried.
C31_OneStreamPerTopic ==
    \A i, j \in DOMAIN streams :
        (Delivering(i) /\ Delivering(j) /\ streams[i].topic = streams[j].topic)
            => i = j

----------------------------------------------------------------------------
(* C32 *)

\* The state bootstrap leaves behind: the spec and the genesis cached, the
\* wall clock built from them, and the wall-clock and finalized-checkpoint
\* reactions registered.
Bootstrapped ==
    /\ spec # 0 /\ genesis # 0
    /\ wallclock = [nil |-> FALSE, genesis |-> genesis, spec |-> spec]
    /\ hooks # {}

\* C32: whenever the ready event has been emitted the node is bootstrapped,
\* and the periodic jobs are scheduled only after bootstrap and after the
\* initial sync-status fetch succeeded.
C32_BootstrapOrdering ==
    /\ emitted["ready"] > 0 => Bootstrapped
    /\ sched # {} => (Bootstrapped /\ ready /\ syncstate # 0)

\* The ready event emitted and the jobs scheduled.
C32_Witness == emitted["ready"] > 0 /\ sched # {}

----------------------------------------------------------------------------
(* C33 *)

\* C33: a reaction in its grace sleep whose context is cancelled performs no
\* finality fetch afterwards, and an ensurer whose context is cancelled makes
\* no subscription attempt afterwards.
C33_WaitsCancellable ==
    [][/\ \A p \in ReactionThreads :
             (th[p].pc = "g_sleep" /\ th[p].ctx \in cancelled) =>
                 ~(th'[p].pc = "call" /\ th'[p].op = "finality")
       /\ (\A c \in ensurers : c \in cancelled) => subscribes' = subscribes]_vars

----------------------------------------------------------------------------
(* C34 *)

\* Start on thread p has returned an error.
StartFailed(p) == th[p].pc = "s_done" /\ th[p].res = "err"

\* The ensurer spawned with context c is left running: nothing has cancelled
\* its context.
EnsurerRunning(c) == c \in ensurers /\ c \notin cancelled

\* C34: when Start has returned an error, no ready event has been emitted or
\* is still to be emitted, and the ensurer it spawned is not left running.
C34_FailedStartLeavesNothing ==
    \A p \in Starters :
        StartFailed(p) =>
            /\ emitted["ready"] = 0 /\ readyPending = 0
            /\ ~EnsurerRunning(th[p].ctx)

----------------------------------------------------------------------------
(* C35 *)

\* Start on thread p has stored its context and cancel function in the node
\* and released the lifecycle mutex.
StoredLifecycle(p) ==
    th[p].pc \notin {"idle", "s_lock", "s_ctx", "s_cancel", "s_unlock"}

\* C35: when Stop cancels, the context of every Start that stored its
\* lifecycle before is cancelled, also when there was more than one.
C35_StopCancelsEveryStart ==
    [][\A q \in Stoppers :
          (th[q].pc = "t_cancel" /\ th'[q].pc = "t_unlock") =>
              \A p \in Starters : StoredLifecycle(p) => th[p].ctx \in cancelled']_vars

----------------------------------------------------------------------------
(* C36 *)

\* The upstream event e has no typed event: its topic has no case in
\* handleEvent, or its payload is not of the topic's type.
Undecodable(e) == ~(e.topic \in ProxiedTopics /\ e.valid)

\* The steps in which the handling of the upstream event e ends.
Handled(e) == e \in inflight /\ e \notin inflight'

\* The positions of the trace where a typed event was emitted for event id.
TypedOf(id) == {j \in DOMAIN trace : trace[j].kind = "typed" /\ trace[j].id = id}

\* The errors the stream handlers have logged.
HandlerErrors == {j \in DOMAIN errlog : errlog[j].src = "ingress"}

\* C36: n.lastEventTime is written at every upstream event; an event with an
\* unknown topic or a payload of the wrong type has had raw_event emitted, is
\* answered with one logged error and no typed event, and leaves every stream
\* as it was; and every event with a known topic and a payload of its type,
\* also one that follows such errors, has its typed event emitted.
C36_IngressErrorsNotFatal ==
    /\ [](lastEventTime = nextEvent)
    /\ [][\A e \in inflight :
             /\ (Handled(e) /\ Undecodable(e)) =>
                   /\ RawOf(e.id) # {}
                   /\ Len(errlog') = Len(errlog) + 1
                   /\ errlog'[Len(errlog')].src = "ingress"
                   /\ emitted' = emitted /\ trace' = trace
                   /\ streams' = streams
             /\ (Handled(e) /\ ~Undecodable(e)) =>
                   /\ emitted'[e.topic] = emitted[e.topic] + 1
                   /\ errlog' = errlog
                   /\ streams' = streams]_vars

\* Two upstream events were answered with an error, one for its topic and one
\* for its payload, and the third event has been dispatched with its typed
\* event.
C36_Witness ==
    /\ nextEvent = 3 /\ lastEventTime = 3 /\ inflight = {}
    /\ {errlog[j].cause : j \in HandlerErrors} = {"invalid", "unknown"}
    /\ TypedOf(3) # {} /\ TypedOf(1) = {} /\ TypedOf(2) = {}

====
